---- MODULE Spec2Model ----
(***************************************************************************)
(* Verification model of the evacuation resolution engine:                 *)
(*   - chunked set fetch with chunk-shrink retry   (streamlit_run.py)      *)
(*   - time-bounded fetch caches and the per-session route cache           *)
(*                                                 (evacuation_planner_page.py) *)
(*   - nearest safe zone / nearest highway search  (evacuation_routes.py)  *)
(*   - live / curated shelter merge                (evacuation_planner_page.py) *)
(* Each component has its own specification (SpecFetch, SpecCache, ...);   *)
(* the variables of the other components stay at their initial value.      *)
(***************************************************************************)
EXTENDS Integers, Sequences, FiniteSets, TLC

\* ------------------------------------------------------------------------
\* Bounds of the model
\* ------------------------------------------------------------------------
\* longest raw uid list enumerated value by value
MaxRawLen == 3
\* length of the one long uid list (makes the 50 and 25 attempts multi-batch)
LongLen == 51
\* most rows a single backend response carries
MaxRowsPerResp == 1

Min(a, b) == IF a <= b THEN a ELSE b

\* ------------------------------------------------------------------------
\* State
\* ------------------------------------------------------------------------
\* fetch_evac_zones_for_uids_with_fallback (one call)
VARIABLES
    f_pc,        \* "idle" | "request" (a batch request is about to be issued) | "returned" | "raised"
    f_arg_uids,  \* the uids argument as passed by the caller
    f_first,     \* the first_chunk argument
    f_uids,      \* the normalised uid list (line 115)
    f_att,       \* index into chunk_sizes of the current attempt (1-based)
    f_off,       \* i of the inner range loop: offset of the next batch
    f_rows,      \* rows accumulated by the current attempt
    f_last_err,  \* last_err
    f_out,       \* what the call returned or raised
    f_log        \* history of backend requests issued by the call

\* the fetch caches of the planner page
VARIABLES
    c_overpass,  \* st.cache_data store of fetch_overpass_shelters: parameters -> entry
    c_ncdot,     \* st.cache_data store of fetch_ncdot_incidents: county -> entry
    c_routes,    \* st.session_state.cached_routes: dest_key -> {"car", "foot"}
    c_answer     \* the last value handed to a caller, and where it came from

\* find_nearest_safe_zone (one call)
VARIABLES
    z_pc,        \* "idle" | "done"
    SAFE_ZONES,  \* the registry, in insertion order
    z_lat, z_lon, z_exclude, z_top_n,   \* the arguments
    z_out        \* the returned list

\* find_nearest_highway (one call)
VARIABLES
    h_pc,            \* "idle" | "done"
    MAJOR_HIGHWAYS,  \* the registry, in insertion order
    h_lat, h_lon, h_state,   \* the arguments
    h_out,           \* the returned triple
    h_compared       \* indices of the highways whose points were measured

\* _merge_shelters (one call)
VARIABLES
    m_pc,        \* "idle" | "done"
    m_live,      \* the live argument
    m_dest,      \* <<dest_lat, dest_lon>>
    m_out        \* the returned mapping

\* fetch_recent (one call)
VARIABLES
    p_pc,         \* "idle" | "request" (a page request is about to be issued) | "returned" | "raised"
    p_max_rows,   \* the max_rows argument
    p_page_size,  \* the page_size argument
    p_start,      \* start
    p_all_rows,   \* all_rows
    p_out,        \* what the call returned or raised
    p_log         \* history of the page requests issued by the call

pvars == <<p_pc, p_max_rows, p_page_size, p_start, p_all_rows, p_out, p_log>>

\* route comparison of the planner page (one run of lines 651-682)
VARIABLES
    r_pc,             \* "idle" | "done"
    r_cached_routes,  \* st.session_state.cached_routes before and after the run
    r_dest,           \* <<shelter_lat, shelter_lon>> in units of 0.00001 degree
    r_straight_mi,    \* _haversine(origin, shelter) in hundredths of a mile
    r_address,        \* st.session_state.search_address
    r_walk_to_stop,   \* walk_to_stop_mins
    r_calls,          \* the routing calls the run made and what the service answered
    r_out             \* the figures of the comparison table

rvars == <<r_pc, r_cached_routes, r_dest, r_straight_mi, r_address, r_walk_to_stop, r_calls, r_out>>

\* get_evacuation_direction (one call)
VARIABLES
    d_pc,          \* "idle" | "done"
    d_fire,        \* <<fire_lat, fire_lon>> in thousandths of a degree
    d_vulnerable,  \* <<vulnerable_lat, vulnerable_lon>> in thousandths of a degree
    d_out          \* the returned (label, bearing)

dvars == <<d_pc, d_fire, d_vulnerable, d_out>>

\* calculate_evacuation_plan (one call; reads SAFE_ZONES and MAJOR_HIGHWAYS)
VARIABLES
    e_pc,          \* "idle" | "done"
    e_vulnerable,  \* <<vulnerable_lat, vulnerable_lon>> in whole degrees
    e_fire,        \* <<fire_lat, fire_lon>> in thousandths of a degree
    e_state,       \* the state argument
    e_legs,        \* highway_point and safe_zone_coords as the call found them
    e_plan         \* the returned plan

evars == <<e_pc, e_vulnerable, e_fire, e_state, e_legs, e_plan>>

\* the live shelter query of one page run: fetch_overpass_shelters, then _merge_shelters
VARIABLES
    o_pc,       \* "idle" | "request" (the next endpoint is about to be asked) | "returned"
    o_dest,     \* <<dest_lat, dest_lon>>
    o_next,     \* index into OVERPASS_ENDPOINTS of the endpoint asked next
    o_log,      \* the requests sent so far: endpoint and how it answered
    o_live,     \* the list fetch_overpass_shelters returned
    o_merged    \* all_shelters_by_cat

ovars == <<o_pc, o_dest, o_next, o_log, o_live, o_merged>>

\* the label step of get_evacuation_direction (lines 44-47), for a given bearing
VARIABLES
    l_pc,       \* "idle" | "done"
    l_bearing,  \* evacuation_bearing in thousandths of a degree
    l_label     \* directions[index]

lvars == <<l_pc, l_bearing, l_label>>

\* --- the engine's module-level registries under a sequence of calls ---
VARIABLES
    g_STATIC_SHELTER_DB,   \* contents of STATIC_SHELTER_DB
    g_SHELTER_CATEGORIES,  \* contents of SHELTER_CATEGORIES
    g_TAG_CATEGORY_MAP,    \* contents of _TAG_CATEGORY_MAP
    g_built,               \* the five registries as built at import
    g_ops,                 \* the operations called so far
    g_result,              \* the last call and what it returned
    g_written              \* the objects the last call wrote to

gvars == <<g_STATIC_SHELTER_DB, g_SHELTER_CATEGORIES, g_TAG_CATEGORY_MAP, g_built, g_ops, g_result, g_written>>

\* --- fetch_where_in ---
VARIABLES
    w_pc,       \* "idle", "request", "returned", "raised"
    w_values,   \* the values argument, as passed
    w_chunk,    \* the chunk argument
    w_vals,     \* vals
    w_off,      \* i of the loop at line 101
    w_rows,     \* out
    w_out,      \* what the call gave back
    w_log       \* the requests issued: offset and part of each

wvars == <<w_pc, w_values, w_chunk, w_vals, w_off, w_rows, w_out, w_log>>

\* --- the planner page's session over reruns and searches ---
VARIABLES
    session_state,     \* st.session_state: the six keys of lines 432-440
    s_route_origins,   \* for each key of cached_routes, the origin its routes were asked for
    s_earlier_origins, \* the origins locked by the searches so far
    s_shown            \* the route comparison the last run displayed, if any

svars == <<session_state, s_route_origins, s_earlier_origins, s_shown>>

\* --- the page's fire-threat list next to the engine's plan ---
VARIABLES
    t_origin,     \* the subject location, in whole degrees
    t_fire_data,  \* the fire rows: latitude and longitude in thousandths of a degree
    t_page,       \* "idle" or "done": the page's fire-threat section
    t_engine,     \* "idle" or "done": calculate_evacuation_plan for each fire
    t_badges,     \* the lines of the fire-threat list
    t_urgency     \* plan['urgency'] for each row of t_fire_data

tvars == <<t_origin, t_fire_data, t_page, t_engine, t_badges, t_urgency>>

cvars == <<c_overpass, c_ncdot, c_routes, c_answer>>

zvars == <<z_pc, SAFE_ZONES, z_lat, z_lon, z_exclude, z_top_n, z_out>>

hvars == <<h_pc, MAJOR_HIGHWAYS, h_lat, h_lon, h_state, h_out, h_compared>>

mvars == <<m_pc, m_live, m_dest, m_out>>

\* ------------------------------------------------------------------------
\* Chunked set fetch: fetch_evac_zones_for_uids_with_fallback
\* ------------------------------------------------------------------------
fvars == <<f_pc, f_arg_uids, f_first, f_uids, f_att, f_off, f_rows, f_last_err, f_out, f_log>>

\* A uid as the caller passes it: <<kind, text>>.  kind "null" is None/NaN,
\* "int" a number whose str() is text, "str" a string.
RawValues == { <<"null", "">>, <<"str", "">>, <<"str", "a">>, <<"str", "7">>, <<"int", "7">> }

\* pd.Series.dropna()
DropNa(s) == SelectSeq(s, LAMBDA v : v[1] # "null")

\* .astype(str): every value becomes its text
AsTypeStr(s) == [i \in 1..Len(s) |-> s[i][2]]

\* .unique(): first occurrences, in order of appearance
Unique(s) ==
    LET F[i \in 0..Len(s)] ==
            IF i = 0 THEN <<>>
            ELSE IF \E j \in 1..(i - 1) : s[j] = s[i] THEN F[i - 1]
            ELSE Append(F[i - 1], s[i])
    IN F[Len(s)]

\* line 115: [u for u in pd.Series(uids).dropna().astype(str).unique().tolist() if u]
NormaliseUids(raw) == SelectSeq(Unique(AsTypeStr(DropNa(raw))), LAMBDA u : u # "")

\* line 119: chunk_sizes = [first_chunk, 100, 50, 25]
ChunkSizes(first_chunk) == <<first_chunk, 100, 50, 25>>

\* variant: a batch also carries the first value of the next batch
SliceOverlapping(s, i, chunk) == SubSeq(s, i + 1, Min(i + chunk + 1, Len(s)))

\* uids[i:i + chunk] for 0 <= i < len(uids), chunk >= 1
Slice(s, i, chunk) == SubSeq(s, i + 1, Min(i + chunk, Len(s)))

\* Message texts an exception can carry.
MsgTexts == { "", "code 57014", "canceling statement due to statement timeout", "connection reset" }

Has57014(m) == m = "code 57014"

HasStatementTimeout(m) == m = "canceling statement due to statement timeout"

\* Exceptions the backend call can raise.  APIError has a message attribute
\* (possibly empty) and a str(); any other exception is not caught at line 135.
ErrorKinds ==
    [type : {"APIError"}, message : MsgTexts, str : MsgTexts]
    \cup [type : {"ConnectError"}, message : {""}, str : MsgTexts]

NoErr == [type |-> "None", message |-> "", str |-> "", req |-> 0]

\* line 137: msg = getattr(e, "message", "") or str(e)
ErrMsg(e) == IF e.message # "" THEN e.message ELSE e.str

\* line 139: "57014" in msg or "statement timeout" in msg
IsTimeoutMsg(e) == Has57014(ErrMsg(e)) \/ HasStatementTimeout(ErrMsg(e))

\* variant: every APIError is retried at a smaller chunk size
IsTransientAnyApiError(e) == e.type = "APIError"

\* the recognized transient-timeout signal: caught at line 135 and matched at 139
IsTransient(e) == e.type = "APIError" /\ IsTimeoutMsg(e)

\* resp.data of a successful response to request number r: None, or a list
\* of rows; a row carries the number of the request that fetched it.
NoneData == [none |-> TRUE, rows |-> <<>>]

RespRows(r, k) == [j \in 1..k |-> [req |-> r, k |-> j]]

RespData(r) == {NoneData} \cup { [none |-> FALSE, rows |-> RespRows(r, k)] : k \in 0..MaxRowsPerResp }

\* line 133: resp.data or []
DataOrEmpty(d) == IF d.none THEN <<>> ELSE d.rows

NoOut == [kind |-> "none", rows |-> <<>>, err |-> NoErr]

\* variant: a new attempt resumes at the offset where the last one failed
EnterAttemptResume(att) ==
    LET chunk == ChunkSizes(f_first)[att] IN
    /\ f_att' = att
    /\ f_off' = f_off
    /\ f_rows' = <<>>
    /\ IF chunk = 0
       THEN /\ f_pc' = "raised"
            /\ f_out' = [kind |-> "raised", rows |-> <<>>,
                         err |-> [type |-> "ValueError", message |-> "", str |-> "range() arg 3 must not be zero", req |-> 0]]
       ELSE IF chunk < 0
       THEN /\ f_pc' = "returned"
            /\ f_out' = [kind |-> "returned", rows |-> <<>>, err |-> NoErr]
       ELSE /\ f_pc' = "request"
            /\ f_out' = f_out

\* variant: rows is initialised once, outside the loop over chunk sizes
EnterAttemptKeepRows(att) ==
    LET chunk == ChunkSizes(f_first)[att] IN
    /\ f_att' = att
    /\ f_off' = 0
    /\ f_rows' = f_rows
    /\ IF chunk = 0
       THEN /\ f_pc' = "raised"
            /\ f_out' = [kind |-> "raised", rows |-> <<>>,
                         err |-> [type |-> "ValueError", message |-> "", str |-> "range() arg 3 must not be zero", req |-> 0]]
       ELSE IF chunk < 0
       THEN /\ f_pc' = "returned"
            /\ f_out' = [kind |-> "returned", rows |-> <<>>, err |-> NoErr]
       ELSE /\ f_pc' = "request"
            /\ f_out' = f_out

\* Entering the body of `for chunk in chunk_sizes` (lines 122-125) at attempt
\* att: rows = [], then range(0, len(uids), chunk).  A zero step makes range()
\* raise ValueError, which line 135 does not catch; a negative step gives an
\* empty range, so line 134 returns at once.
EnterAttempt(att) ==
    LET chunk == ChunkSizes(f_first)[att] IN
    /\ f_att' = att
    /\ f_off' = 0
    /\ f_rows' = <<>>
    /\ IF chunk = 0
       THEN /\ f_pc' = "raised"
            /\ f_out' = [kind |-> "raised", rows |-> <<>>,
                         err |-> [type |-> "ValueError", message |-> "", str |-> "range() arg 3 must not be zero", req |-> 0]]
       ELSE IF chunk < 0
       THEN /\ f_pc' = "returned"
            /\ f_out' = [kind |-> "returned", rows |-> <<>>, err |-> NoErr]
       ELSE /\ f_pc' = "request"
            /\ f_out' = f_out

\* lines 110-121: the call up to the first request
FetchCall ==
    /\ f_pc = "idle"
    /\ f_uids' = NormaliseUids(f_arg_uids)
    /\ f_last_err' = NoErr
    /\ IF f_uids' = <<>>
       THEN /\ f_pc' = "returned"
            /\ f_out' = [kind |-> "returned", rows |-> <<>>, err |-> NoErr]
            /\ UNCHANGED <<f_att, f_off, f_rows>>
       ELSE EnterAttempt(1)
    /\ UNCHANGED <<f_arg_uids, f_first, f_log>>
    /\ UNCHANGED <<cvars, zvars, hvars, mvars, pvars, rvars, dvars, evars, ovars, lvars, gvars, wvars, svars, tvars>>

CurChunk == ChunkSizes(f_first)[f_att]

\* What an observer of the backend sees of a failed request: whether the
\* exception is an APIError whose message mentions 57014 or statement timeout.
TimeoutSignal(e) ==
    /\ e.type = "APIError"
    /\ ErrMsg(e) \in {"code 57014", "canceling statement due to statement timeout"}

\* One entry of the request history: the attempt and batch the request
\* belongs to, the uids it carried, and how the backend answered
\* (outcome "ok" with data, or "fail" with signal "timeout" / "other").
LogEntry(outcome, signal, data) ==
    [att |-> f_att, chunk |-> CurChunk, off |-> f_off,
     part |-> Slice(f_uids, f_off, CurChunk),
     outcome |-> outcome, signal |-> signal, data |-> data]

FailSignal(e) == IF TimeoutSignal(e) THEN "timeout" ELSE "other"

\* lines 126-134: a batch request succeeds
BatchOk ==
    /\ f_pc = "request"
    /\ \E d \in RespData(Len(f_log) + 1) :
         /\ f_log' = Append(f_log, LogEntry("ok", "none", d))
         /\ f_rows' = f_rows \o DataOrEmpty(d)
         /\ f_off' = f_off + CurChunk
         /\ IF f_off' < Len(f_uids)
            THEN /\ f_pc' = "request"
                 /\ f_out' = f_out
            ELSE /\ f_pc' = "returned"
                 /\ f_out' = [kind |-> "returned", rows |-> f_rows', err |-> NoErr]
    /\ UNCHANGED <<f_arg_uids, f_first, f_uids, f_att, f_last_err>>
    /\ UNCHANGED <<cvars, zvars, hvars, mvars, pvars, rvars, dvars, evars, ovars, lvars, gvars, wvars, svars, tvars>>

\* line 143: RuntimeError("Failed to fetch evac zones (unknown error).")
RuntimeError == [type |-> "RuntimeError", message |-> "", str |-> "Failed to fetch evac zones (unknown error).", req |-> 0]

\* variant: the handler forgets to record the error in last_err
BatchTimeoutNoLastErr ==
    /\ f_pc = "request"
    /\ \E k \in ErrorKinds :
         LET e == [type |-> k.type, message |-> k.message, str |-> k.str, req |-> Len(f_log) + 1] IN
         /\ IsTransient(e)
         /\ f_log' = Append(f_log, LogEntry("fail", FailSignal(e), NoneData))
         /\ f_last_err' = f_last_err
         /\ IF f_att < Len(ChunkSizes(f_first))
            THEN EnterAttempt(f_att + 1)
            ELSE /\ f_pc' = "raised"
                 /\ f_out' = [kind |-> "raised", rows |-> <<>>, err |-> IF f_last_err' # NoErr THEN f_last_err' ELSE RuntimeError]
                 /\ UNCHANGED <<f_att, f_off, f_rows>>
    /\ UNCHANGED <<f_arg_uids, f_first, f_uids>>
    /\ UNCHANGED <<cvars, zvars, hvars, mvars, pvars, rvars, dvars, evars, ovars, lvars, gvars, wvars, svars, tvars>>

\* lines 135-140, 143: a batch request fails with the transient timeout signal
BatchTimeout ==
    /\ f_pc = "request"
    /\ \E k \in ErrorKinds :
         LET e == [type |-> k.type, message |-> k.message, str |-> k.str, req |-> Len(f_log) + 1] IN
         /\ IsTransient(e)
         /\ f_log' = Append(f_log, LogEntry("fail", FailSignal(e), NoneData))
         /\ f_last_err' = e
         /\ IF f_att < Len(ChunkSizes(f_first))
            THEN EnterAttempt(f_att + 1)
            ELSE /\ f_pc' = "raised"
                 /\ f_out' = [kind |-> "raised", rows |-> <<>>, err |-> IF f_last_err' # NoErr THEN f_last_err' ELSE RuntimeError]
                 /\ UNCHANGED <<f_att, f_off, f_rows>>
    /\ UNCHANGED <<f_arg_uids, f_first, f_uids>>
    /\ UNCHANGED <<cvars, zvars, hvars, mvars, pvars, rvars, dvars, evars, ovars, lvars, gvars, wvars, svars, tvars>>

\* lines 135-141: a batch request fails with anything else
BatchAbort ==
    /\ f_pc = "request"
    /\ \E k \in ErrorKinds :
         LET e == [type |-> k.type, message |-> k.message, str |-> k.str, req |-> Len(f_log) + 1] IN
         /\ ~IsTransient(e)
         /\ f_log' = Append(f_log, LogEntry("fail", FailSignal(e), NoneData))
         /\ f_last_err' = IF e.type = "APIError" THEN e ELSE f_last_err
         /\ f_pc' = "raised"
         /\ f_out' = [kind |-> "raised", rows |-> <<>>, err |-> e]
    /\ UNCHANGED <<f_arg_uids, f_first, f_uids, f_att, f_off, f_rows>>
    /\ UNCHANGED <<cvars, zvars, hvars, mvars, pvars, rvars, dvars, evars, ovars, lvars, gvars, wvars, svars, tvars>>

\* uid lists of up to MaxRawLen raw values
ShortUidLists == UNION { [1..n -> RawValues] : n \in 0..MaxRawLen }

\* one long list of distinct uids
LongUidList == [i \in 1..LongLen |-> <<"str", ToString(i)>>]

\* first_chunk values tried with the short lists
FirstChunks == {-1, 0, 1, 2, 200}

\* line 326: the dashboard passes first_chunk=200
DefaultFirstChunk == 200

FetchNotCalled ==
    /\ f_pc = "idle"
    /\ f_uids = <<>>
    /\ f_att = 0
    /\ f_off = 0
    /\ f_rows = <<>>
    /\ f_last_err = NoErr
    /\ f_out = NoOut
    /\ f_log = <<>>

FetchIdle ==
    /\ f_arg_uids = <<>>
    /\ f_first = DefaultFirstChunk
    /\ FetchNotCalled

FetchInit ==
    /\ \/ f_arg_uids \in ShortUidLists /\ f_first \in FirstChunks
       \/ f_arg_uids = LongUidList /\ f_first = DefaultFirstChunk
    /\ FetchNotCalled

FetchNext == FetchCall \/ BatchOk \/ BatchTimeout \/ BatchAbort

\* ------------------------------------------------------------------------
\* Geometry: haversine_distance on a grid of whole-degree points
\* ------------------------------------------------------------------------
\* most zones in a sampled registry
MaxZones == 3
\* most highways in a sampled registry
MaxHighways == 2
\* most path points of a sampled highway
MaxPath == 2

Lats == {34, 35}

Lons == {-119, -118, -117}

GridPoints == Lats \X Lons

Abs(x) == IF x < 0 THEN -x ELSE x

\* 6371 * 2 * asin(sqrt(a)) of lines 23-27, evaluated for the grid points and
\* rounded to the nearest km (34N-34N: 92.18 km per degree of longitude,
\* 35N-35N: 91.09, one degree of latitude: 111.19, the diagonals 144.09 and
\* 214.36; three and four degrees of longitude apart: 276.54 and 368.72,
\* 273.25 and 364.32, 296.53 and 383.02).
haversine_distance(lat1, lon1, lat2, lon2) ==
    LET dlon == Abs(lon2 - lon1) IN
    IF lat1 = lat2
    THEN IF lat1 = 34
         THEN CASE dlon = 0 -> 0 [] dlon = 1 -> 92 [] dlon = 2 -> 184 [] dlon = 3 -> 277 [] dlon = 4 -> 369
         ELSE CASE dlon = 0 -> 0 [] dlon = 1 -> 91 [] dlon = 2 -> 182 [] dlon = 3 -> 273 [] dlon = 4 -> 364
    ELSE CASE dlon = 0 -> 111 [] dlon = 1 -> 144 [] dlon = 2 -> 214 [] dlon = 3 -> 297 [] dlon = 4 -> 383

\* ------------------------------------------------------------------------
\* Safe zones: find_nearest_safe_zone
\* ------------------------------------------------------------------------
\* Keys of the sampled registry, by insertion position.
ZoneNames == <<"Modesto", "Bakersfield", "San Jose", "Fresno", "Oakland">>

\* Registries: every list of up to MaxZones named points.
ZoneRegistries ==
    UNION { { [i \in 1..n |-> [name |-> ZoneNames[i], lat |-> pts[i][1], lon |-> pts[i][2]]] :
              pts \in [1..n -> GridPoints] } : n \in 0..MaxZones }

\* exclude_radius_km values tried (100 is the default and the planner's radius)
ExcludeRadii == {0, 92, 100, 145, 250}

\* top_n values tried (5 is the default)
TopNs == {-1, 0, 1, 2, 5}

\* variant: the radius test is inverted
QualifiesWithin(d, exclude_radius_km) == d <= exclude_radius_km

\* line 601: if d >= exclude_radius_km
Qualifies(d, exclude_radius_km) == d >= exclude_radius_km

\* lines 598-602: the candidates, in registry order
Candidates(registry, lat, lon, exclude_radius_km) ==
    LET F[i \in 0..Len(registry)] ==
            IF i = 0 THEN <<>>
            ELSE LET z == registry[i]
                     d == haversine_distance(lat, lon, z.lat, z.lon)
                 IN IF Qualifies(d, exclude_radius_km)
                    THEN Append(F[i - 1], [name |-> z.name, d |-> d, point |-> <<z.lat, z.lon>>])
                    ELSE F[i - 1]
    IN F[Len(registry)]

\* variant: an element is placed before the elements of equal key
InsertBeforeEqual(t, x) ==
    LET k == Cardinality({j \in 1..Len(t) : t[j].d < x.d})
    IN SubSeq(t, 1, k) \o <<x>> \o SubSeq(t, k + 1, Len(t))

\* One step of a stable sort on key x[1] (the distance): x goes after every
\* element whose key is not larger.
InsertStable(t, x) ==
    LET k == Cardinality({j \in 1..Len(t) : t[j].d <= x.d})
    IN SubSeq(t, 1, k) \o <<x>> \o SubSeq(t, k + 1, Len(t))

\* line 604: candidates.sort(key=lambda x: x[1])  (list.sort is stable)
SortByDistance(c) ==
    LET F[i \in 0..Len(c)] == IF i = 0 THEN <<>> ELSE InsertStable(F[i - 1], c[i])
    IN F[Len(c)]

\* line 605: candidates[:top_n]; a negative top_n drops that many from the end
Take(c, top_n) ==
    IF top_n >= 0 THEN SubSeq(c, 1, Min(top_n, Len(c)))
    ELSE SubSeq(c, 1, Len(c) + top_n)

\* lines 592-605
find_nearest_safe_zone(registry, lat, lon, exclude_radius_km, top_n) ==
    Take(SortByDistance(Candidates(registry, lat, lon, exclude_radius_km)), top_n)

ZoneCall ==
    /\ z_pc = "idle"
    /\ z_out' = find_nearest_safe_zone(SAFE_ZONES, z_lat, z_lon, z_exclude, z_top_n)
    /\ z_pc' = "done"
    /\ UNCHANGED <<SAFE_ZONES, z_lat, z_lon, z_exclude, z_top_n>>
    /\ UNCHANGED <<fvars, cvars, hvars, mvars, pvars, rvars, dvars, evars, ovars, lvars, gvars, wvars, svars, tvars>>

ZoneIdle ==
    /\ z_pc = "idle"
    /\ SAFE_ZONES = <<>>
    /\ z_lat = 34
    /\ z_lon = -118
    /\ z_exclude = 100
    /\ z_top_n = 5
    /\ z_out = <<>>

ZoneInit ==
    /\ z_pc = "idle"
    /\ SAFE_ZONES \in ZoneRegistries
    /\ \E p \in GridPoints : z_lat = p[1] /\ z_lon = p[2]
    /\ z_exclude \in ExcludeRadii
    /\ z_top_n \in TopNs
    /\ z_out = <<>>

ZoneNext == ZoneCall

\* ------------------------------------------------------------------------
\* Highways: find_nearest_highway
\* ------------------------------------------------------------------------
\* hwy['name'] of the sampled registry, by insertion position
HighwayNames == <<"Interstate 5", "Interstate 10", "Interstate 15">>

\* hwy['states'] lists tried
StateLists == { <<"CA", "OR">>, <<"NV">> }

\* path points of the sampled highways, and the origins searched from
HighwayPoints == { <<34, -119>>, <<35, -118>> }

HighwayOrigins == { <<34, -118>>, <<35, -118>> }

HighwayPaths == UNION { [1..n -> HighwayPoints] : n \in 1..MaxPath }

HighwayRegistries ==
    UNION { { [i \in 1..n |-> [name |-> HighwayNames[i], states |-> h[i][1], coords |-> h[i][2]]] :
              h \in [1..n -> StateLists \X HighwayPaths] } : n \in 0..MaxHighways }

\* The state argument: None, or a string (possibly empty).
NoState == [given |-> FALSE, code |-> ""]

StateArgs == {NoState} \cup { [given |-> TRUE, code |-> c] : c \in {"", "CA", "NV", "TX"} }

\* truth value of `state` in `if state and ...`
Truthy(state) == state.given /\ state.code # ""

InList(x, l) == \E i \in 1..Len(l) : l[i] = x

\* line 90: float('inf')
Inf == 1000000

NoneName == "<None>"

NonePoint == <<0, 0>>

\* variant: a highway outside the state is measured as well
SkippedNever(state, hwy) == FALSE

\* line 94: if state and state not in hwy['states']: continue
Skipped(state, hwy) == Truthy(state) /\ ~InList(state.code, hwy.states)

\* variant: an equally near point replaces the best so far
ScanPointsLastWins(best, hwy, lat, lon) ==
    LET F[i \in 0..Len(hwy.coords)] ==
            IF i = 0 THEN best
            ELSE LET pt == hwy.coords[i]
                     d == haversine_distance(lat, lon, pt[1], pt[2])
                 IN IF d <= F[i - 1].min_distance
                    THEN [min_distance |-> d, nearest_highway |-> hwy.name, nearest_point |-> pt]
                    ELSE F[i - 1]
    IN F[Len(hwy.coords)]

\* lines 96-101: the inner loop over one highway's points, from best so far
ScanPoints(best, hwy, lat, lon) ==
    LET F[i \in 0..Len(hwy.coords)] ==
            IF i = 0 THEN best
            ELSE LET pt == hwy.coords[i]
                     d == haversine_distance(lat, lon, pt[1], pt[2])
                 IN IF d < F[i - 1].min_distance
                    THEN [min_distance |-> d, nearest_highway |-> hwy.name, nearest_point |-> pt]
                    ELSE F[i - 1]
    IN F[Len(hwy.coords)]

\* lines 88-102; `compared` records which highways reached the inner loop
find_nearest_highway(registry, lat, lon, state) ==
    LET F[i \in 0..Len(registry)] ==
            IF i = 0
            THEN [best |-> [min_distance |-> Inf, nearest_highway |-> NoneName, nearest_point |-> NonePoint],
                  compared |-> {}]
            ELSE IF Skipped(state, registry[i])
                 THEN F[i - 1]
                 ELSE [best |-> ScanPoints(F[i - 1].best, registry[i], lat, lon),
                       compared |-> F[i - 1].compared \cup {i}]
    IN F[Len(registry)]

NoHighwayOut == [min_distance |-> Inf, nearest_highway |-> NoneName, nearest_point |-> NonePoint]

HighwayCall ==
    /\ h_pc = "idle"
    /\ LET r == find_nearest_highway(MAJOR_HIGHWAYS, h_lat, h_lon, h_state) IN
         /\ h_out' = r.best
         /\ h_compared' = r.compared
    /\ h_pc' = "done"
    /\ UNCHANGED <<MAJOR_HIGHWAYS, h_lat, h_lon, h_state>>
    /\ UNCHANGED <<fvars, cvars, zvars, mvars, pvars, rvars, dvars, evars, ovars, lvars, gvars, wvars, svars, tvars>>

HighwayIdle ==
    /\ h_pc = "idle"
    /\ MAJOR_HIGHWAYS = <<>>
    /\ h_lat = 34
    /\ h_lon = -118
    /\ h_state = NoState
    /\ h_out = NoHighwayOut
    /\ h_compared = {}

HighwayInit ==
    /\ h_pc = "idle"
    /\ MAJOR_HIGHWAYS \in HighwayRegistries
    /\ \E p \in HighwayOrigins : h_lat = p[1] /\ h_lon = p[2]
    /\ h_state \in StateArgs
    /\ h_out = NoHighwayOut
    /\ h_compared = {}

HighwayNext == HighwayCall

\* ------------------------------------------------------------------------
\* Shelters: _merge_shelters
\* ------------------------------------------------------------------------
\* most live shelter records passed to one merge
MaxLive == 3

\* lines 293-303, in display order
SHELTER_CATEGORIES ==
    << "General", "Women / Domestic-Violence", "Elderly", "Disabled / ADA", "Mental Health",
       "Veterans", "Families w/ Children", "Pet-Friendly", "Hospital / Medical" >>

\* lines 228-290 (the dashes of the source strings are written "-")
STATIC_SHELTER_DB ==
       ("General" :> <<
           [name |-> "Red Cross Shelter (local chapter)",
            address |-> "Contact local Red Cross - 1-800-RED-CROSS",
            lat_offset |-> 0, lon_offset |-> 0,
            phone |-> "1-800-733-2767", ada |-> TRUE,
            note |-> "Red Cross operates temporary shelters within 24 h of a declared emergency.  Call to confirm nearest open location."],
           [name |-> "FEMA / County Emergency Shelter",
            address |-> "Contact county emergency management or dial 211",
            lat_offset |-> 0, lon_offset |-> 0,
            phone |-> "211", ada |-> TRUE,
            note |-> "County-run shelters open automatically when an evacuation order is issued.  211 connects to local emergency services nationwide."] >>)
    @@ ("Women / Domestic-Violence" :> <<
           [name |-> "National DV Hotline - Shelter Referral",
            address |-> "Referral only - call or text for nearest shelter",
            lat_offset |-> 0, lon_offset |-> 0,
            phone |-> "1-800-799-7233", ada |-> TRUE,
            note |-> "The National Domestic Violence Hotline can connect you to the nearest safe, confidential shelter.  Text START to 88788."] >>)
    @@ ("Elderly" :> <<
           [name |-> "Area Agency on Aging - Emergency Placement",
            address |-> "Contact your local AAA for nearest elder shelter",
            lat_offset |-> 0, lon_offset |-> 0,
            phone |-> "eldercare.acl.gov - 1-800-677-1116", ada |-> TRUE,
            note |-> "The Eldercare Locator (federal) links to local Area Agencies on Aging who coordinate emergency placement for seniors."] >>)
    @@ ("Disabled / ADA" :> <<
           [name |-> "ADA / Disability-Specific Shelter Referral",
            address |-> "Contact local emergency management",
            lat_offset |-> 0, lon_offset |-> 0,
            phone |-> "211", ada |-> TRUE,
            note |-> "Most county emergency shelters are ADA-compliant.  Call 211 and specify mobility / accessibility needs - they can match you to the right facility."] >>)
    @@ ("Mental Health" :> <<
           [name |-> "988 Suicide & Crisis Lifeline - Shelter Referral",
            address |-> "Call or text 988 for crisis support + shelter help",
            lat_offset |-> 0, lon_offset |-> 0,
            phone |-> "988", ada |-> TRUE,
            note |-> "988 counsellors can arrange crisis-safe shelter placement and coordinate with local mental-health agencies during emergencies."] >>)
    @@ ("Veterans" :> <<
           [name |-> "VA Emergency / Homeless Veteran Services",
            address |-> "Contact nearest VA Medical Center",
            lat_offset |-> 0, lon_offset |-> 0,
            phone |-> "1-800-273-8255 (Veterans Crisis Line)", ada |-> TRUE,
            note |-> "The VA operates emergency shelters for veterans through its Homeless Veteran programmes.  The Veterans Crisis Line also helps locate shelter."] >>)
    @@ ("Families w/ Children" :> <<
           [name |-> "211 Family-Shelter Referral",
            address |-> "Dial 211 and request family shelter",
            lat_offset |-> 0, lon_offset |-> 0,
            phone |-> "211", ada |-> TRUE,
            note |-> "Many emergency shelters have dedicated family wings with cots, meals, and childcare.  211 can confirm which facilities are open and have family capacity."] >>)
    @@ ("Pet-Friendly" :> <<
           [name |-> "ASPCA / Local Animal Rescue - Pet-Friendly Shelter Info",
            address |-> "Contact local animal rescue or dial 211",
            lat_offset |-> 0, lon_offset |-> 0,
            phone |-> "211", ada |-> FALSE,
            note |-> "Not all emergency shelters accept pets.  211 and local animal rescues maintain up-to-date lists of pet-friendly evacuation sites.  Bring carriers, food, and records."] >>)

Range(f) == { f[x] : x \in DOMAIN f }

\* Categories a live record can carry: some of the enumeration, one that
\* _TAG_CATEGORY_MAP produces outside of it, and "no category key".
NoCategoryKey == "<missing>"

LiveCategories == {"General", "Elderly", "Hospital / Medical", "Group Home", NoCategoryKey}

LiveNames == <<"Shelter A", "Shelter B", "Shelter C", "Shelter D">>

\* A live record as fetch_overpass_shelters builds it (lines 355-364); a
\* record without a category key has category NoCategoryKey.
LiveRecord(i, cat, pt) ==
    [name |-> LiveNames[i], lat |-> pt[1], lon |-> pt[2], category |-> cat,
     phone |-> "N/A", ada |-> TRUE, website |-> "", source |-> "OpenStreetMap"]

LiveLists ==
    UNION { { [i \in 1..n |-> LiveRecord(i, cats[i], <<35, -117>>)] : cats \in [1..n -> LiveCategories] } :
            n \in 0..MaxLive }

\* line 380: s.get("category", "General")
CategoryOf(s) == IF s.category = NoCategoryKey THEN "General" ELSE s.category

\* lines 379-383: the live pass, from the mapping with every known category empty
LivePass(live) ==
    LET F[i \in 0..Len(live)] ==
            IF i = 0 THEN [cat \in Range(SHELTER_CATEGORIES) |-> <<>>]
            ELSE LET prev == F[i - 1]
                     cat == CategoryOf(live[i])
                     withKey == IF cat \in DOMAIN prev THEN prev ELSE (cat :> <<>>) @@ prev
                 IN [withKey EXCEPT ![cat] = Append(@, live[i])]
    IN F[Len(live)]

\* lines 390-399: the record built from one curated entry
CuratedRecord(cat, s, dest_lat, dest_lon) ==
    [name |-> s.name, lat |-> dest_lat + s.lat_offset, lon |-> dest_lon + s.lon_offset,
     category |-> cat, phone |-> s.phone, ada |-> s.ada, note |-> s.note, source |-> "Curated"]

CuratedList(cat, dest_lat, dest_lon) ==
    [k \in 1..Len(STATIC_SHELTER_DB[cat]) |-> CuratedRecord(cat, STATIC_SHELTER_DB[cat][k], dest_lat, dest_lon)]

\* variant: the curated entries are appended to every category
NeedsCuratedAlways(merged, cat) == TRUE

\* variant: no category ever counts as empty
NeedsCuratedNever(merged, cat) == FALSE

\* line 388: if not merged.get(cat)
NeedsCurated(merged, cat) == cat \notin DOMAIN merged \/ merged[cat] = <<>>

\* lines 371-400
merge_shelters(live, dest_lat, dest_lon) ==
    LET afterLive == LivePass(live)
        keys == DOMAIN afterLive \cup {c \in DOMAIN STATIC_SHELTER_DB : STATIC_SHELTER_DB[c] # <<>>}
    IN [cat \in keys |->
          LET have == IF cat \in DOMAIN afterLive THEN afterLive[cat] ELSE <<>>
          IN IF cat \in DOMAIN STATIC_SHELTER_DB /\ NeedsCurated(afterLive, cat)
             THEN have \o CuratedList(cat, dest_lat, dest_lon)
             ELSE have]

MergeCall ==
    /\ m_pc = "idle"
    /\ m_out' = merge_shelters(m_live, m_dest[1], m_dest[2])
    /\ m_pc' = "done"
    /\ UNCHANGED <<m_live, m_dest>>
    /\ UNCHANGED <<fvars, cvars, zvars, hvars, pvars, rvars, dvars, evars, ovars, lvars, gvars, wvars, svars, tvars>>

MergeIdle ==
    /\ m_pc = "idle"
    /\ m_live = <<>>
    /\ m_dest = <<34, -118>>
    /\ m_out = <<>>

MergeInit ==
    /\ m_pc = "idle"
    /\ m_live \in LiveLists
    /\ m_dest \in GridPoints
    /\ m_out = <<>>

MergeNext == MergeCall

\* ------------------------------------------------------------------------
\* Live shelter query: fetch_overpass_shelters (the function under the cache)
\* ------------------------------------------------------------------------
\* lines 202-205
OVERPASS_ENDPOINTS == <<"https://overpass-api.de/api/interpreter", "https://api.letsopen.de/api/interpreter">>

\* lines 208-223
TAG_CATEGORY_MAP ==
       ("dv_shelter" :> "Women / Domestic-Violence")
    @@ ("elderly_care" :> "Elderly")
    @@ ("disabled" :> "Disabled / ADA")
    @@ ("mental_health" :> "Mental Health")
    @@ ("housing_emergency" :> "General Emergency")
    @@ ("food_bank" :> "Food / Supply Distribution")
    @@ ("group_home" :> "Group Home")
    @@ ("shelter" :> "General")
    @@ ("social_centre" :> "Social Centre")
    @@ ("hospital" :> "Hospital / Medical")
    @@ ("veterinary" :> "Pet-Friendly (Veterinary)")

\* a coordinate that is absent from an element (None)
NoCoord == 0

\* str.strip() on the texts used here
Strip(t) == IF t = " " THEN "" ELSE t

\* line 349: _TAG_CATEGORY_MAP.get(sf) or _TAG_CATEGORY_MAP.get(amenity) or "General"
TagCategory(sf, amenity) ==
    IF sf \in DOMAIN TAG_CATEGORY_MAP THEN TAG_CATEGORY_MAP[sf]
    ELSE IF amenity \in DOMAIN TAG_CATEGORY_MAP THEN TAG_CATEGORY_MAP[amenity]
    ELSE "General"

\* lines 341-342: elem.get("lat") or (elem.get("center") or {}).get("lat")
CoordOf(own, center) == IF own # NoCoord THEN own ELSE center

\* lines 334-364: the records built from the elements of one response body
ParseElements(elements) ==
    LET F[i \in 0..Len(elements)] ==
            IF i = 0 THEN <<>>
            ELSE LET e == elements[i]
                     name == Strip(e.name)
                     lat == CoordOf(e.lat, e.center_lat)
                     lon == CoordOf(e.lon, e.center_lon)
                 IN IF name = "" \/ lat = NoCoord \/ lon = NoCoord
                    THEN F[i - 1]
                    ELSE Append(F[i - 1],
                           [name |-> name, lat |-> lat, lon |-> lon,
                            category |-> TagCategory(e.social_facility, e.amenity),
                            phone |-> IF Strip(e.phone) = "" THEN "N/A" ELSE Strip(e.phone),
                            ada |-> e.wheelchair # "no",
                            website |-> Strip(e.website),
                            source |-> "OpenStreetMap"])
    IN F[Len(elements)]

\* An endpoint's answer to the POST: kind "ok" is status 200 with a JSON
\* object, "non200" any other status, "exception" a failed request (timeout,
\* connection error), "unparsable" status 200 with a body r.json() rejects.
EndpointKinds == {"ok", "non200", "exception", "unparsable"}

\* lines 325-368: the endpoints are tried in list order; `asked` counts the
\* requests sent, all_failed tells that line 368 was reached.
fetch_overpass_shelters(responses) ==
    LET F[i \in 0..Len(OVERPASS_ENDPOINTS)] ==
            IF i = 0 THEN [done |-> FALSE, results |-> <<>>, asked |-> 0]
            ELSE IF F[i - 1].done THEN F[i - 1]
            ELSE IF responses[i].kind = "ok"
                 THEN [done |-> TRUE, results |-> ParseElements(responses[i].elements), asked |-> i]
                 ELSE [done |-> FALSE, results |-> <<>>, asked |-> i]
        r == F[Len(OVERPASS_ENDPOINTS)]
    IN [results |-> r.results, all_failed |-> ~r.done, asked |-> r.asked]

\* sample elements of a response body
ElemShelter ==
    [name |-> "County Shelter", lat |-> 35, lon |-> -117, center_lat |-> NoCoord, center_lon |-> NoCoord,
     social_facility |-> "", amenity |-> "shelter", phone |-> "", wheelchair |-> "", website |-> ""]

ElemUnnamed ==
    [name |-> " ", lat |-> 35, lon |-> -117, center_lat |-> NoCoord, center_lon |-> NoCoord,
     social_facility |-> "", amenity |-> "shelter", phone |-> "", wheelchair |-> "", website |-> ""]

\* response bodies tried by the cache model
CacheBodies == { <<>>, <<ElemShelter>> }

CacheEndpointResponses ==
    { [kind |-> "ok", elements |-> b] : b \in CacheBodies }
    \cup { [kind |-> k, elements |-> <<>>] : k \in EndpointKinds \ {"ok"} }

\* ------------------------------------------------------------------------
\* Live incident feed: fetch_ncdot_incidents (the function under the cache)
\* ------------------------------------------------------------------------
\* lines 127-133, two of the counties
NC_COUNTY_IDS == ("wake" :> 81) @@ ("durham" :> 28)

\* county_name.lower().strip() on the names used here
LowerStrip(t) == IF t = "Wake " THEN "wake" ELSE t

\* The feed's answer to the GET: "list" is status 200 with a JSON list,
\* "notlist" status 200 with other JSON, "non200", "exception".
NcdotKinds == {"list", "notlist", "non200", "exception"}

\* lines 137-153; `asked` tells whether the feed was requested at all
fetch_ncdot_incidents(county_name, response) ==
    IF LowerStrip(county_name) \notin DOMAIN NC_COUNTY_IDS
    THEN [results |-> <<>>, failed |-> FALSE, asked |-> FALSE]
    ELSE IF response.kind = "list"
         THEN [results |-> response.incidents, failed |-> FALSE, asked |-> TRUE]
         ELSE [results |-> <<>>, failed |-> TRUE, asked |-> TRUE]

NcdotResponses ==
    { [kind |-> "list", incidents |-> l] : l \in { <<>>, <<[title |-> "Crash", road |-> "I-40"]>> } }
    \cup { [kind |-> k, incidents |-> <<>>] : k \in NcdotKinds \ {"list"} }

\* ------------------------------------------------------------------------
\* Routing: osrm_route
\* ------------------------------------------------------------------------
\* n / d rounded to the nearest integer, halves to the even one (d > 0)
RoundHalfEven(n, d) ==
    LET q == n \div d
        r == n - q * d
    IN IF 2 * r < d THEN q
       ELSE IF 2 * r > d THEN q + 1
       ELSE IF q % 2 = 0 THEN q ELSE q + 1

NoneRoute == [none |-> TRUE, distance_mi_x10 |-> 0, duration_min_x10 |-> 0]

\* The router's answer: "ok" is status 200 with code "Ok" and a route of
\* `distance` metres and `duration` seconds; "non200"; "notOk" (another
\* code); "exception" (failed request or malformed body).
OsrmKinds == {"ok", "non200", "notOk", "exception"}

\* lines 90-121.  distance_mi = round(distance * 0.000621371, 1) and
\* duration_min = round(duration / 60, 1), both kept in tenths.
osrm_route(response) ==
    IF response.kind # "ok" THEN NoneRoute
    ELSE [none |-> FALSE,
          distance_mi_x10 |-> RoundHalfEven(response.distance * 621371, 100000000),
          duration_min_x10 |-> RoundHalfEven(response.duration, 6)]

OsrmResponses ==
    { [kind |-> "ok", distance |-> 1609, duration |-> 120] }
    \cup { [kind |-> k, distance |-> 0, duration |-> 0] : k \in OsrmKinds \ {"ok"} }

\* ------------------------------------------------------------------------
\* The caches: st.cache_data(ttl=...) and st.session_state.cached_routes
\* ------------------------------------------------------------------------
\* seconds that pass in one step of the clock
TickSeconds == 150

\* line 306: ttl=300
OverpassTtl == 300

\* line 136: ttl=120
NcdotTtl == 120

\* line 307: radius_m: int = 15000
DefaultRadiusM == 15000

\* Destinations, in units of 0.00001 degree.
RouteDests == { <<3500000, -11700000>>, <<3500004, -11700000>>, <<3400000, -11800000>> }

\* line 651: f"{shelter_lat:.4f},{shelter_lon:.4f}", in units of 0.0001 degree
DestKey(lat, lon) == <<RoundHalfEven(lat, 10), RoundHalfEven(lon, 10)>>

\* argument tuples of the cached functions
OverpassParams == { <<p[1], p[2], DefaultRadiusM>> : p \in {<<35, -117>>, <<34, -118>>} }

NcdotParams == {"Wake ", "atlantis"}

\* st.cache_data: entries older than ttl are dropped
Expire(cache, ttl) ==
    LET aged == [k \in DOMAIN cache |-> [cache[k] EXCEPT !.age = @ + TickSeconds]]
        live == {k \in DOMAIN aged : aged[k].age < ttl}
    IN [k \in live |-> aged[k]]

\* st.cache_data stores whatever the function returned
Store(cache, key, value, failed) ==
    (key :> [value |-> value, failed |-> failed, age |-> 0]) @@ cache

NoAnswer == [op |-> "none", from_cache |-> FALSE, failed |-> FALSE]

\* line 599 through the decorator of line 306
OverpassCall ==
    /\ \E p \in OverpassParams :
         IF p \in DOMAIN c_overpass
         THEN /\ c_answer' = [op |-> "overpass", from_cache |-> TRUE, failed |-> c_overpass[p].failed]
              /\ UNCHANGED c_overpass
         ELSE \E responses \in [1..Len(OVERPASS_ENDPOINTS) -> CacheEndpointResponses] :
                LET r == fetch_overpass_shelters(responses) IN
                /\ c_overpass' = Store(c_overpass, p, r.results, r.all_failed)
                /\ c_answer' = [op |-> "overpass", from_cache |-> FALSE, failed |-> r.all_failed]
    /\ UNCHANGED <<c_ncdot, c_routes>>
    /\ UNCHANGED <<fvars, zvars, hvars, mvars, pvars, rvars, dvars, evars, ovars, lvars, gvars, wvars, svars, tvars>>

\* line 543 through the decorator of line 136
NcdotCall ==
    /\ \E county \in NcdotParams :
         IF county \in DOMAIN c_ncdot
         THEN /\ c_answer' = [op |-> "ncdot", from_cache |-> TRUE, failed |-> c_ncdot[county].failed]
              /\ UNCHANGED c_ncdot
         ELSE \E response \in NcdotResponses :
                LET r == fetch_ncdot_incidents(county, response) IN
                /\ c_ncdot' = Store(c_ncdot, county, r.results, r.failed)
                /\ c_answer' = [op |-> "ncdot", from_cache |-> FALSE, failed |-> r.failed]
    /\ UNCHANGED <<c_overpass, c_routes>>
    /\ UNCHANGED <<fvars, zvars, hvars, mvars, pvars, rvars, dvars, evars, ovars, lvars, gvars, wvars, svars, tvars>>

RouteFailed(entry) == entry.car.none \/ entry.foot.none

\* lines 651-660: the routes to the primary shelter, through cached_routes
RouteStep ==
    /\ \E d \in RouteDests :
         LET dest_key == DestKey(d[1], d[2]) IN
         IF dest_key \in DOMAIN c_routes
         THEN /\ c_answer' = [op |-> "routes", from_cache |-> TRUE, failed |-> RouteFailed(c_routes[dest_key])]
              /\ UNCHANGED c_routes
         ELSE \E car_resp \in OsrmResponses, foot_resp \in OsrmResponses :
                LET entry == [car |-> osrm_route(car_resp), foot |-> osrm_route(foot_resp)] IN
                /\ c_routes' = (dest_key :> entry) @@ c_routes
                /\ c_answer' = [op |-> "routes", from_cache |-> FALSE, failed |-> RouteFailed(entry)]
    /\ UNCHANGED <<c_overpass, c_ncdot>>
    /\ UNCHANGED <<fvars, zvars, hvars, mvars, pvars, rvars, dvars, evars, ovars, lvars, gvars, wvars, svars, tvars>>

\* lines 457-462: "Find Route" pressed with an address
NewSearch ==
    /\ c_routes' = <<>>
    /\ c_answer' = NoAnswer
    /\ UNCHANGED <<c_overpass, c_ncdot>>
    /\ UNCHANGED <<fvars, zvars, hvars, mvars, pvars, rvars, dvars, evars, ovars, lvars, gvars, wvars, svars, tvars>>

\* time passes
Tick ==
    /\ c_overpass' = Expire(c_overpass, OverpassTtl)
    /\ c_ncdot' = Expire(c_ncdot, NcdotTtl)
    /\ UNCHANGED <<c_routes, c_answer>>
    /\ UNCHANGED <<fvars, zvars, hvars, mvars, pvars, rvars, dvars, evars, ovars, lvars, gvars, wvars, svars, tvars>>

CacheIdle ==
    /\ c_overpass = <<>>
    /\ c_ncdot = <<>>
    /\ c_routes = <<>>
    /\ c_answer = NoAnswer

CacheInit == CacheIdle

CacheNext == OverpassCall \/ NcdotCall \/ RouteStep \/ NewSearch \/ Tick

\* ------------------------------------------------------------------------
\* Paged fetch: fetch_recent
\* ------------------------------------------------------------------------
\* largest max_rows argument tried
MaxMaxRows == 6
\* largest page_size argument tried
MaxPageSize == 3

MaxRowsArgs == -1..MaxMaxRows

\* a page size of 0 asks for no row at all
PageSizes == 0..MaxPageSize

\* lines 67-74: .range(start, end) asks for the rows at offsets start..end of
\* the ordering; the backend answers with the first n of them (n = 0 at the
\* end of the table, n below the page size on its last page or when the
\* server caps the response), or with data None.  A row is named by its offset.
PageRows(start, n) == [k \in 1..n |-> start + k - 1]

PageData(start, end) ==
    {NoneData} \cup { [none |-> FALSE, rows |-> PageRows(start, n)] : n \in 0..(end - start + 1) }

\* variant: a short page is not taken as the end of the data
EndOfDataNever(rows, page_size) == FALSE

\* line 79: len(rows) < page_size
EndOfData(rows, page_size) == Len(rows) < page_size

\* line 66: while start < max_rows
MorePages(start, max_rows) == start < max_rows

NoPagedOut == [kind |-> "none", rows |-> <<>>]

\* line 82: return pd.DataFrame(all_rows)
PagedReturn(rows) == [kind |-> "returned", rows |-> rows]

\* lines 64-66: the call up to the first request
PagedCall ==
    /\ p_pc = "idle"
    /\ p_start' = 0
    /\ p_all_rows' = <<>>
    /\ IF MorePages(0, p_max_rows)
       THEN p_pc' = "request" /\ p_out' = p_out
       ELSE p_pc' = "returned" /\ p_out' = PagedReturn(<<>>)
    /\ UNCHANGED <<p_max_rows, p_page_size, p_log>>
    /\ UNCHANGED <<fvars, cvars, zvars, hvars, mvars, rvars, dvars, evars, ovars, lvars, gvars, wvars, svars, tvars>>

\* lines 67-82: one page request answered, and the loop up to the next request
PageOk ==
    /\ p_pc = "request"
    /\ LET end == p_start + p_page_size - 1 IN
       \E d \in PageData(p_start, end) :
         LET rows == DataOrEmpty(d) IN
         /\ p_log' = Append(p_log, [start |-> p_start, end |-> end, outcome |-> "ok", rows |-> rows])
         /\ IF rows = <<>>
            THEN /\ p_all_rows' = p_all_rows
                 /\ p_start' = p_start
                 /\ p_pc' = "returned"
                 /\ p_out' = PagedReturn(p_all_rows')
            ELSE /\ p_all_rows' = p_all_rows \o rows
                 /\ IF EndOfData(rows, p_page_size)
                    THEN /\ p_start' = p_start
                         /\ p_pc' = "returned"
                         /\ p_out' = PagedReturn(p_all_rows')
                    ELSE /\ p_start' = p_start + p_page_size
                         /\ IF MorePages(p_start', p_max_rows)
                            THEN p_pc' = "request" /\ p_out' = p_out
                            ELSE p_pc' = "returned" /\ p_out' = PagedReturn(p_all_rows')
    /\ UNCHANGED <<p_max_rows, p_page_size>>
    /\ UNCHANGED <<fvars, cvars, zvars, hvars, mvars, rvars, dvars, evars, ovars, lvars, gvars, wvars, svars, tvars>>

\* lines 68-74: execute() raises (backend or transport error); nothing
\* catches it in fetch_recent
PageError ==
    /\ p_pc = "request"
    /\ p_log' = Append(p_log, [start |-> p_start, end |-> p_start + p_page_size - 1, outcome |-> "error", rows |-> <<>>])
    /\ p_pc' = "raised"
    /\ p_out' = [kind |-> "raised", rows |-> <<>>]
    /\ UNCHANGED <<p_max_rows, p_page_size, p_start, p_all_rows>>
    /\ UNCHANGED <<fvars, cvars, zvars, hvars, mvars, rvars, dvars, evars, ovars, lvars, gvars, wvars, svars, tvars>>

PagedNotCalled ==
    /\ p_pc = "idle"
    /\ p_start = 0
    /\ p_all_rows = <<>>
    /\ p_out = NoPagedOut
    /\ p_log = <<>>

\* line 60: page_size defaults to 1000; the dashboard asks for 15000 rows
DefaultPageSize == 1000

DefaultMaxIncidentRows == 15000

PagedIdle ==
    /\ p_max_rows = DefaultMaxIncidentRows
    /\ p_page_size = DefaultPageSize
    /\ PagedNotCalled

PagedInit ==
    /\ p_max_rows \in MaxRowsArgs
    /\ p_page_size \in PageSizes
    /\ PagedNotCalled

PagedNext == PagedCall \/ PageOk \/ PageError

\* ------------------------------------------------------------------------
\* Route comparison: car and foot routes with heuristic fallbacks
\* ------------------------------------------------------------------------
\* the router's answers tried for one profile
RouteResponses ==
    OsrmResponses \cup { [kind |-> "ok", distance |-> 3000, duration |-> 2250] }

\* straight-line distances tried, in hundredths of a mile (0, 0.04, 2, 5, 6,
\* 57 and 57.3 mi); none of them puts s * 1.3 or s * 1.2 half-way between two
\* tenths, or s * 2 half-way between two minutes, where round() depends on
\* the binary representation
StraightMiles == {0, 4, 200, 500, 600, 5700, 5730}

\* lines 404-413
TRANSIT_WALK_MINS ==
    ("new york" :> 5) @@ ("chicago" :> 8) @@ ("los angeles" :> 12) @@ ("houston" :> 15) @@
    ("phoenix" :> 18) @@ ("philadelphia" :> 10) @@ ("san antonio" :> 20) @@ ("san diego" :> 14) @@
    ("dallas" :> 16) @@ ("san jose" :> 12) @@ ("austin" :> 18) @@ ("san francisco" :> 7) @@
    ("columbus" :> 15) @@ ("indianapolis" :> 18) @@ ("seattle" :> 9) @@ ("denver" :> 12) @@
    ("washington" :> 8) @@ ("nashville" :> 20) @@ ("boston" :> 7) @@ ("charlotte" :> 14) @@
    ("portland" :> 10) @@ ("miami" :> 12) @@ ("atlanta" :> 11) @@ ("detroit" :> 16) @@
    ("minneapolis" :> 10) @@ ("tampa" :> 22) @@ ("orlando" :> 25) @@ ("pittsburgh" :> 14) @@
    ("cleveland" :> 13) @@ ("raleigh" :> 18) @@ ("new orleans" :> 15) @@ ("baltimore" :> 11)

\* the addresses tried for a search
SearchAddresses ==
    { "Los Angeles, CA", "  raleigh ", "Tampa,FL", "Smallville, KS", "CA, Los Angeles" }

\* line 416: city_name.lower().strip().split(",")[0].strip()
CityKey(city_name) ==
    CASE city_name = "Los Angeles, CA" -> "los angeles"
      [] city_name = "  raleigh " -> "raleigh"
      [] city_name = "Tampa,FL" -> "tampa"
      [] city_name = "Smallville, KS" -> "smallville"
      [] city_name = "CA, Los Angeles" -> "ca"
      [] OTHER -> city_name

\* line 416: TRANSIT_WALK_MINS.get(key, 15)
nearest_stop_walk(city_name) ==
    IF CityKey(city_name) \in DOMAIN TRANSIT_WALK_MINS THEN TRANSIT_WALK_MINS[CityKey(city_name)] ELSE 15

\* variant: the driving estimate uses the walking factor
DriveFallbackDistWalkFactor(s) == RoundHalfEven(s * 12, 100)

\* line 679: round(straight_mi * 1.3, 1), in tenths of a mile
DriveFallbackDist(s) == RoundHalfEven(s * 13, 100)

\* line 680: round(drive_dist / 45 * 60, 0), in tenths of a minute
DriveFallbackEta(dist) == 10 * RoundHalfEven(dist * 2, 15)

\* line 681: round(straight_mi * 1.2, 1), in tenths of a mile
WalkFallbackDist(s) == RoundHalfEven(s * 12, 100)

\* line 682: round(walk_dist / 3.5 * 60, 0), in tenths of a minute
WalkFallbackEta(dist) == 10 * RoundHalfEven(dist * 12, 7)

\* line 665: round(straight_mi / 30 * 60, 0), in minutes
TransitTravelMin(s) == RoundHalfEven(s, 50)

\* variant: the hybrid ride covers the whole distance
TransitRestMinWholeTrip(s) == TransitTravelMin(s)

\* line 669: round((straight_mi - 5) / 30 * 60, 0) if straight_mi > 5 else transit_travel_min
TransitRestMin(s) == IF s > 500 THEN RoundHalfEven(s - 500, 50) ELSE TransitTravelMin(s)

\* variant: one missing route makes both profiles fall back
TruthyRouteBoth(route, other) == ~route.none /\ ~other.none

\* lines 679-682: `car_route["..."] if car_route else ...` - a route dict is
\* truthy, None is not; the other profile's route plays no part
TruthyRoute(route, other) == ~route.none

\* lines 662-682: the figures shown for the cached pair of routes
RouteFigures(cached, s, walk_to_stop_mins) ==
    LET car_route == cached.car
        foot_route == cached.foot
        transit_travel_min == TransitTravelMin(s)
        drive_dist == IF TruthyRoute(car_route, foot_route) THEN car_route.distance_mi_x10 ELSE DriveFallbackDist(s)
        walk_dist == IF TruthyRoute(foot_route, car_route) THEN foot_route.distance_mi_x10 ELSE WalkFallbackDist(s)
    IN [warning |-> car_route.none /\ foot_route.none,
        drive_dist |-> drive_dist,
        drive_eta |-> IF TruthyRoute(car_route, foot_route) THEN car_route.duration_min_x10 ELSE DriveFallbackEta(drive_dist),
        walk_dist |-> walk_dist,
        walk_eta |-> IF TruthyRoute(foot_route, car_route) THEN foot_route.duration_min_x10 ELSE WalkFallbackEta(walk_dist),
        transit_total_min |-> walk_to_stop_mins + transit_travel_min + 10,
        hybrid_total_min |-> 10 + TransitRestMin(s) + 5]

NoResponse == [kind |-> "none", distance |-> 0, duration |-> 0]

NoCalls == [made |-> FALSE, car |-> NoResponse, foot |-> NoResponse]

NoFigures ==
    [warning |-> FALSE, drive_dist |-> 0, drive_eta |-> 0, walk_dist |-> 0, walk_eta |-> 0,
     transit_total_min |-> 0, hybrid_total_min |-> 0]

\* lines 651-682: one run of the route comparison
ResolveRoutes ==
    /\ r_pc = "idle"
    /\ LET dest_key == DestKey(r_dest[1], r_dest[2]) IN
       /\ IF dest_key \in DOMAIN r_cached_routes
          THEN /\ r_cached_routes' = r_cached_routes
               /\ r_calls' = NoCalls
          ELSE \E car_resp \in RouteResponses, foot_resp \in RouteResponses :
                 /\ r_cached_routes' = (dest_key :> [car |-> osrm_route(car_resp), foot |-> osrm_route(foot_resp)]) @@ r_cached_routes
                 /\ r_calls' = [made |-> TRUE, car |-> car_resp, foot |-> foot_resp]
       /\ r_walk_to_stop' = nearest_stop_walk(r_address)
       /\ r_out' = RouteFigures(r_cached_routes'[dest_key], r_straight_mi, r_walk_to_stop')
    /\ r_pc' = "done"
    /\ UNCHANGED <<r_dest, r_straight_mi, r_address>>
    /\ UNCHANGED <<fvars, cvars, zvars, hvars, mvars, pvars, dvars, evars, ovars, lvars, gvars, wvars, svars, tvars>>

\* entries an earlier run of the same search can have left in cached_routes
EarlierRoutes ==
    { [car |-> osrm_route(a), foot |-> osrm_route(b)] :
        a \in { [kind |-> "ok", distance |-> 1609, duration |-> 120], [kind |-> "non200", distance |-> 0, duration |-> 0] },
        b \in { [kind |-> "ok", distance |-> 3000, duration |-> 2250], [kind |-> "exception", distance |-> 0, duration |-> 0] } }

EarlierCaches ==
    { <<>> } \cup { (DestKey(3500000, -11700000) :> e) : e \in EarlierRoutes }

RoutesNotResolved ==
    /\ r_pc = "idle"
    /\ r_walk_to_stop = 0
    /\ r_calls = NoCalls
    /\ r_out = NoFigures

RoutesIdle ==
    /\ r_cached_routes = <<>>
    /\ r_dest = <<3500000, -11700000>>
    /\ r_straight_mi = 0
    /\ r_address = "Smallville, KS"
    /\ RoutesNotResolved

RoutesInit ==
    /\ r_cached_routes \in EarlierCaches
    /\ r_dest \in RouteDests
    /\ r_straight_mi \in StraightMiles
    /\ r_address \in SearchAddresses
    /\ RoutesNotResolved

RoutesNext == ResolveRoutes

\* ------------------------------------------------------------------------
\* Bearings: calculate_bearing and get_evacuation_direction
\* ------------------------------------------------------------------------
\* Positions of a fire relative to the person, <<north, east>> in thousandths
\* of a degree: on the spot, due north at 14.5, 15.0, 39.5, 40.0 and 111 km,
\* and about 18 to 29 km away in each of the eight compass directions.
FireOffsets ==
    { <<0, 0>>, <<130, 0>>, <<135, 0>>, <<355, 0>>, <<360, 0>>, <<1000, 0>>,
      <<200, 200>>, <<-200, 0>>, <<0, 200>>, <<0, -200>>, <<-200, -200>>, <<200, -200>>, <<-200, 200>> }

\* (np.degrees(np.arctan2(x, y)) + 360) % 360 of lines 32-37 for point 1 at
\* one of FireOffsets (or 2 degrees due north) from point 2, in thousandths
\* of a degree (rounded); the key is <<lat2, lat1 - lat2, lon1 - lon2>>.
\* arctan2(0, 0) is 0.
BearingTable ==
    (<<34000, 0, 0>> :> 0) @@ (<<34000, 130, 0>> :> 180000) @@ (<<34000, 135, 0>> :> 180000) @@
    (<<34000, 355, 0>> :> 180000) @@ (<<34000, 360, 0>> :> 180000) @@ (<<34000, 1000, 0>> :> 180000) @@
    (<<34000, 200, 200>> :> 219683) @@ (<<34000, -200, 0>> :> 0) @@ (<<34000, 0, 200>> :> 270056) @@
    (<<34000, 0, -200>> :> 89944) @@ (<<34000, -200, -200>> :> 39637) @@ (<<34000, 200, -200>> :> 140317) @@
    (<<34000, -200, 200>> :> 320363) @@ (<<34000, 2000, 0>> :> 180000) @@ (<<35000, 2000, 0>> :> 180000) @@ (<<35000, 0, 0>> :> 0) @@ (<<35000, 130, 0>> :> 180000) @@
    (<<35000, 135, 0>> :> 180000) @@ (<<35000, 355, 0>> :> 180000) @@ (<<35000, 360, 0>> :> 180000) @@
    (<<35000, 1000, 0>> :> 180000) @@ (<<35000, 200, 200>> :> 219346) @@ (<<35000, -200, 0>> :> 0) @@
    (<<35000, 0, 200>> :> 270057) @@ (<<35000, 0, -200>> :> 89943) @@ (<<35000, -200, -200>> :> 39300) @@
    (<<35000, 200, -200>> :> 140654) @@ (<<35000, -200, 200>> :> 320700)

\* lines 30-37: bearing from point 1 to point 2, coordinates and result in
\* thousandths of a degree
calculate_bearing(lat1, lon1, lat2, lon2) == BearingTable[<<lat2, lat1 - lat2, lon1 - lon2>>]

\* line 44
directions == <<"North", "Northeast", "East", "Southeast", "South", "Southwest", "West", "Northwest">>

\* line 43: (fire_bearing + 180) % 360
EvacuationBearing(fire_bearing) == (fire_bearing + 180000) % 360000

\* variant: a bearing half-way between two labels goes to the next label
DirectionIndexHalfUp(evacuation_bearing) == ((evacuation_bearing + 22500) \div 45000) % 8

\* line 46: round(evacuation_bearing / 45) % 8; round() rounds half to even
DirectionIndex(evacuation_bearing) == RoundHalfEven(evacuation_bearing, 45000) % 8

\* lines 40-47
get_evacuation_direction(fire_lat, fire_lon, vulnerable_lat, vulnerable_lon) ==
    LET fire_bearing == calculate_bearing(fire_lat, fire_lon, vulnerable_lat, vulnerable_lon)
        evacuation_bearing == EvacuationBearing(fire_bearing)
        index == DirectionIndex(evacuation_bearing)
    IN [direction |-> directions[index + 1], bearing |-> evacuation_bearing]

\* where the person is, in thousandths of a degree
VulnerablePoints == {34000, 35000} \X {-118000, -118200, -117000}

NoDirection == [direction |-> "", bearing |-> 0]

DirectionCall ==
    /\ d_pc = "idle"
    /\ d_out' = get_evacuation_direction(d_fire[1], d_fire[2], d_vulnerable[1], d_vulnerable[2])
    /\ d_pc' = "done"
    /\ UNCHANGED <<d_fire, d_vulnerable>>
    /\ UNCHANGED <<fvars, cvars, zvars, hvars, mvars, pvars, rvars, evars, ovars, lvars, gvars, wvars, svars, tvars>>

DirectionIdle ==
    /\ d_pc = "idle"
    /\ d_vulnerable = <<34000, -118200>>
    /\ d_fire = <<34200, -118000>>
    /\ d_out = NoDirection

DirectionInit ==
    /\ d_pc = "idle"
    /\ d_vulnerable \in VulnerablePoints
    /\ \E o \in FireOffsets : d_fire = <<d_vulnerable[1] + o[1], d_vulnerable[2] + o[2]>>
    /\ d_out = NoDirection

DirectionNext == DirectionCall

\* ------------------------------------------------------------------------
\* Evacuation plan: calculate_evacuation_plan
\* ------------------------------------------------------------------------
\* haversine_distance (lines 21-27) from a point to a fire at one of
\* FireOffsets (or 2 degrees due north) from it, rounded to the nearest km; the key is
\* <<lat1, lat2 - lat1, lon2 - lon1>> in thousandths of a degree.  None of
\* the distances is rounded across 15 km or 40 km.
FireKmTable ==
    (<<34000, 0, 0>> :> 0) @@ (<<34000, 130, 0>> :> 14) @@ (<<34000, 135, 0>> :> 15) @@
    (<<34000, 355, 0>> :> 39) @@ (<<34000, 360, 0>> :> 40) @@ (<<34000, 1000, 0>> :> 111) @@
    (<<34000, 200, 200>> :> 29) @@ (<<34000, -200, 0>> :> 22) @@ (<<34000, 0, 200>> :> 18) @@
    (<<34000, 0, -200>> :> 18) @@ (<<34000, -200, -200>> :> 29) @@ (<<34000, 200, -200>> :> 29) @@
    (<<34000, -200, 200>> :> 29) @@ (<<34000, 2000, 0>> :> 222) @@ (<<35000, 2000, 0>> :> 222) @@ (<<35000, 0, 0>> :> 0) @@ (<<35000, 130, 0>> :> 14) @@
    (<<35000, 135, 0>> :> 15) @@ (<<35000, 355, 0>> :> 39) @@ (<<35000, 360, 0>> :> 40) @@
    (<<35000, 1000, 0>> :> 111) @@ (<<35000, 200, 200>> :> 29) @@ (<<35000, -200, 0>> :> 22) @@
    (<<35000, 0, 200>> :> 18) @@ (<<35000, 0, -200>> :> 18) @@ (<<35000, -200, -200>> :> 29) @@
    (<<35000, 200, -200>> :> 29) @@ (<<35000, -200, 200>> :> 29)

haversine_distance_fine(lat1, lon1, lat2, lon2) == FireKmTable[<<lat1, lat2 - lat1, lon2 - lon1>>]

\* an optional number: None, or a value
NoneNum == [none |-> TRUE, value |-> 0]

Some(v) == [none |-> FALSE, value |-> v]

\* truth value of an optional number in `x if x else ...`
TruthyNum(x) == ~x.none /\ x.value # 0

\* x * 0.621371, in millionths of a mile
ToMiles(km) == km * 621371

\* line 592: the defaults of find_nearest_safe_zone, which line 620 relies on
DefaultExcludeRadiusKm == 100

DefaultTopN == 5

\* variant: 15 km still counts as HIGH
UrgencyInclusive(fire_dist) == IF fire_dist <= 15 THEN "HIGH" ELSE IF fire_dist < 40 THEN "MEDIUM" ELSE "LOW"

\* line 635
Urgency(fire_dist) == IF fire_dist < 15 THEN "HIGH" ELSE IF fire_dist < 40 THEN "MEDIUM" ELSE "LOW"

\* variant: the alternatives are the whole zone list
AlternativesWithPrimary(zone_list) == zone_list

\* line 648: zone_list[1:] if len(zone_list) > 1 else []
Alternatives(zone_list) == IF Len(zone_list) > 1 THEN SubSeq(zone_list, 2, Len(zone_list)) ELSE <<>>

\* variant: the highway leg is left out of the total
TotalDistanceDirect(hw, highway_point_found, zone_list) ==
    IF zone_list # <<>> /\ zone_list[1].d # 0 THEN zone_list[1].d ELSE 0

\* lines 626-633: total_dist
TotalDistance(hw, highway_point_found, zone_list) ==
    IF highway_point_found /\ zone_list # <<>>
    THEN hw.min_distance + haversine_distance(hw.nearest_point[1], hw.nearest_point[2],
                                              zone_list[1].point[1], zone_list[1].point[2])
    ELSE IF zone_list # <<>> /\ zone_list[1].d # 0 THEN zone_list[1].d ELSE 0

\* variant: the distance to the highway is reported even when none was found
HighwayDistanceAlways(highway_found, highway_dist) == Some(highway_dist)

\* line 643: highway_dist if highway else None
HighwayDistance(highway_found, highway_dist) == IF highway_found THEN Some(highway_dist) ELSE NoneNum

NoHighwayLabel == "No major highway nearby"

NoSafeZoneLabel == "Consult local authorities"

FireNames == {"Test Fire"}

\* lines 609-653
calculate_evacuation_plan(vulnerable_lat, vulnerable_lon, fire_lat, fire_lon, fire_name, state) ==
    LET fire_dist == haversine_distance_fine(vulnerable_lat * 1000, vulnerable_lon * 1000, fire_lat, fire_lon)
        evac == get_evacuation_direction(fire_lat, fire_lon, vulnerable_lat * 1000, vulnerable_lon * 1000)
        hw == find_nearest_highway(MAJOR_HIGHWAYS, vulnerable_lat, vulnerable_lon, state).best
        highway_found == hw.nearest_highway # NoneName
        highway_point_found == hw.nearest_point # NonePoint
        zone_list == find_nearest_safe_zone(SAFE_ZONES, vulnerable_lat, vulnerable_lon, DefaultExcludeRadiusKm, DefaultTopN)
        safe_zone_dist == IF zone_list # <<>> THEN Some(zone_list[1].d) ELSE NoneNum
        total_dist == TotalDistance(hw, highway_point_found, zone_list)
    IN [evacuation_direction |-> evac.direction,
        evacuation_bearing |-> evac.bearing,
        fire_name |-> fire_name,
        fire_distance_km |-> fire_dist,
        fire_distance_mi |-> ToMiles(fire_dist),
        nearest_highway |-> IF highway_found THEN hw.nearest_highway ELSE NoHighwayLabel,
        highway_distance_km |-> HighwayDistance(highway_found, hw.min_distance),
        highway_distance_mi |-> IF highway_found THEN Some(ToMiles(hw.min_distance)) ELSE NoneNum,
        safe_zone |-> IF zone_list # <<>> THEN zone_list[1].name ELSE NoSafeZoneLabel,
        safe_zone_distance_km |-> safe_zone_dist,
        safe_zone_distance_mi |-> IF TruthyNum(safe_zone_dist) THEN Some(ToMiles(safe_zone_dist.value)) ELSE NoneNum,
        safe_zone_alternatives |-> Alternatives(zone_list),
        total_distance_km |-> total_dist,
        total_distance_mi |-> ToMiles(total_dist),
        urgency |-> Urgency(fire_dist)]

NoLegs == [highway_point |-> NonePoint, safe_zone_coords |-> NonePoint]

NoPlan == [urgency |-> "none"]

PlanCall ==
    /\ e_pc = "idle"
    /\ \E fire_name \in FireNames :
         e_plan' = calculate_evacuation_plan(e_vulnerable[1], e_vulnerable[2], e_fire[1], e_fire[2], fire_name, e_state)
    /\ LET zone_list == find_nearest_safe_zone(SAFE_ZONES, e_vulnerable[1], e_vulnerable[2], DefaultExcludeRadiusKm, DefaultTopN) IN
       e_legs' = [highway_point |-> find_nearest_highway(MAJOR_HIGHWAYS, e_vulnerable[1], e_vulnerable[2], e_state).best.nearest_point,
                  safe_zone_coords |-> IF zone_list # <<>> THEN zone_list[1].point ELSE NonePoint]
    /\ e_pc' = "done"
    /\ UNCHANGED <<e_vulnerable, e_fire, e_state>>
    /\ UNCHANGED <<fvars, cvars, zvars, hvars, mvars, pvars, rvars, dvars, ovars, lvars, gvars, wvars, svars, tvars>>

\* the sampled zones of a plan, in registry order
PlanZones ==
    << [name |-> "Oakland", lat |-> 34, lon |-> -116],
       [name |-> "Modesto", lat |-> 35, lon |-> -118],
       [name |-> "Stockton", lat |-> 35, lon |-> -120],
       [name |-> "Bakersfield", lat |-> 34, lon |-> -119],
       [name |-> "Fresno", lat |-> 35, lon |-> -119],
       [name |-> "San Jose", lat |-> 35, lon |-> -117],
       [name |-> "Reno", lat |-> 34, lon |-> -118],
       [name |-> "Redding", lat |-> 35, lon |-> -116],
       [name |-> "Sacramento", lat |-> 34, lon |-> -120] >>

\* registries: every run of consecutive entries of PlanZones, the empty one included
PlanZoneRegistries ==
    { SubSeq(PlanZones, i, j) : i \in 1..Len(PlanZones), j \in 0..Len(PlanZones) }

PlanHighwayRegistries ==
    { <<>>,
      << [name |-> "Interstate 5", states |-> <<"CA", "OR">>, coords |-> << <<34, -119>>, <<35, -118>> >>] >>,
      << [name |-> "Interstate 5", states |-> <<"CA", "OR">>, coords |-> << <<34, -119>>, <<35, -118>> >>],
         [name |-> "Interstate 15", states |-> <<"NV">>, coords |-> << <<34, -118>>, <<35, -117>> >>] >> }

PlanVulnerablePoints == { <<34, -118>>, <<35, -118>> }

ZoneNotCalled ==
    /\ z_pc = "idle"
    /\ z_lat = 34
    /\ z_lon = -118
    /\ z_exclude = 100
    /\ z_top_n = 5
    /\ z_out = <<>>

HighwayNotCalled ==
    /\ h_pc = "idle"
    /\ h_lat = 34
    /\ h_lon = -118
    /\ h_state = NoState
    /\ h_out = NoHighwayOut
    /\ h_compared = {}

PlanNotCalled ==
    /\ e_pc = "idle"
    /\ e_legs = NoLegs
    /\ e_plan = NoPlan

PlanIdle ==
    /\ e_vulnerable = <<34, -118>>
    /\ e_fire = <<34200, -118000>>
    /\ e_state = NoState
    /\ PlanNotCalled

PlanInit ==
    /\ SAFE_ZONES \in PlanZoneRegistries
    /\ MAJOR_HIGHWAYS \in PlanHighwayRegistries
    /\ e_vulnerable \in PlanVulnerablePoints
    /\ \E o \in FireOffsets : e_fire = <<e_vulnerable[1] * 1000 + o[1], e_vulnerable[2] * 1000 + o[2]>>
    /\ e_state \in StateArgs
    /\ PlanNotCalled

PlanNext == PlanCall

\* ------------------------------------------------------------------------
\* Live shelter query, endpoint by endpoint (lines 325-368 and 599-600)
\* ------------------------------------------------------------------------
\* values of the social_facility and amenity tags: absent, every key of
\* _TAG_CATEGORY_MAP, and a value the table does not know
TagValues == {""} \cup DOMAIN TAG_CATEGORY_MAP \cup {"clinic"}

\* a named node with its own coordinates and the given tags
ElemTagged(sf, amenity) ==
    [name |-> "County Shelter", lat |-> 35, lon |-> -117, center_lat |-> NoCoord, center_lon |-> NoCoord,
     social_facility |-> sf, amenity |-> amenity, phone |-> "", wheelchair |-> "", website |-> ""]

\* a named way: no coordinates of its own, a center
ElemWay ==
    [name |-> "Senior Center", lat |-> NoCoord, lon |-> NoCoord, center_lat |-> 35, center_lon |-> -117,
     social_facility |-> "elderly_care", amenity |-> "", phone |-> "555-0100", wheelchair |-> "no", website |-> ""]

\* the "elements" of the response bodies tried
QueryBodies ==
    { <<>>, <<ElemUnnamed>>, <<ElemWay, ElemShelter>> }
    \cup { <<ElemTagged(sf, amenity)>> : sf \in TagValues, amenity \in TagValues }

QueryResponses ==
    { [kind |-> "ok", elements |-> b] : b \in QueryBodies }
    \cup { [kind |-> k, elements |-> <<>>] : k \in EndpointKinds \ {"ok"} }

\* variant: a non-200 answer is parsed like a good one
EndpointSucceededAnyStatus(response) == response.kind \in {"ok", "non200"}

\* lines 330-332 and 365-367: the answer has status 200 and its body parses
EndpointSucceeded(response) == response.kind = "ok"

\* lines 326-368: one endpoint is asked; the page merges the list as soon as
\* fetch_overpass_shelters returns (lines 599-600)
AskEndpoint ==
    /\ o_pc = "request"
    /\ \E response \in QueryResponses :
         /\ o_log' = Append(o_log, [endpoint |-> OVERPASS_ENDPOINTS[o_next], kind |-> response.kind,
                                     elements |-> response.elements])
         /\ IF EndpointSucceeded(response)
            THEN /\ o_live' = ParseElements(response.elements)
                 /\ o_merged' = merge_shelters(o_live', o_dest[1], o_dest[2])
                 /\ o_pc' = "returned"
                 /\ o_next' = o_next
            ELSE IF o_next < Len(OVERPASS_ENDPOINTS)
            THEN /\ o_next' = o_next + 1
                 /\ o_pc' = "request"
                 /\ UNCHANGED <<o_live, o_merged>>
            ELSE /\ o_live' = <<>>
                 /\ o_merged' = merge_shelters(<<>>, o_dest[1], o_dest[2])
                 /\ o_pc' = "returned"
                 /\ o_next' = o_next
    /\ UNCHANGED o_dest
    /\ UNCHANGED <<fvars, cvars, zvars, hvars, mvars, pvars, rvars, dvars, evars, lvars, gvars, wvars, svars, tvars>>

\* line 599: the call of fetch_overpass_shelters, up to its first request
QueryCall ==
    /\ o_pc = "idle"
    /\ o_next' = 1
    /\ o_pc' = "request"
    /\ UNCHANGED <<o_dest, o_log, o_live, o_merged>>
    /\ UNCHANGED <<fvars, cvars, zvars, hvars, mvars, pvars, rvars, dvars, evars, lvars, gvars, wvars, svars, tvars>>

QueryIdle ==
    /\ o_pc = "idle"
    /\ o_dest = <<35, -117>>
    /\ o_next = 1
    /\ o_log = <<>>
    /\ o_live = <<>>
    /\ o_merged = <<>>

QueryInit == QueryIdle

QueryNext == QueryCall \/ AskEndpoint

\* ------------------------------------------------------------------------
\* Direction label of a bearing (lines 44-47)
\* ------------------------------------------------------------------------
\* bearings tried, in thousandths of a degree: every half degree of
\* [0, 360), which includes the boundaries 22.5, 67.5, ..., 337.5, and the
\* bearings a thousandth of a degree to either side of a boundary
BearingSamples ==
    { 500 * k : k \in 0..719 }
    \cup { 22500 + 45000 * k - 1 : k \in 0..7 }
    \cup { 22500 + 45000 * k + 1 : k \in 0..7 }

LabelCall ==
    /\ l_pc = "idle"
    /\ l_label' = directions[DirectionIndex(l_bearing) + 1]
    /\ l_pc' = "done"
    /\ UNCHANGED l_bearing
    /\ UNCHANGED <<fvars, cvars, zvars, hvars, mvars, pvars, rvars, dvars, evars, ovars, gvars, wvars, svars, tvars>>

LabelNotCalled ==
    /\ l_pc = "idle"
    /\ l_label = ""

LabelIdle ==
    /\ l_bearing = 0
    /\ LabelNotCalled

LabelInit ==
    /\ l_bearing \in BearingSamples
    /\ LabelNotCalled

LabelNext == LabelCall

\* ------------------------------------------------------------------------
\* The registries under sequences of engine calls
\* ------------------------------------------------------------------------
\* The module-level objects.  Every other object of a call is named by the
\* local variable it is bound to.
RegistryObjects ==
    {"SAFE_ZONES", "MAJOR_HIGHWAYS", "STATIC_SHELTER_DB", "SHELTER_CATEGORIES", "_TAG_CATEGORY_MAP"}

\* evacuation_routes.py line 598: candidates = [], the target of append and sort
CandidatesObject == "candidates"

\* evacuation_routes.py lines 637-653: the dict literal returned by
\* calculate_evacuation_plan, the target of plan['location'] = ...
PlanObject == "plan"

\* evacuation_routes.py line 658: evacuation_plans = [], the target of append
PlansObject == "evacuation_plans"

\* variant: the merged mapping is the curated table itself
MergedObjectIsStaticDb == "STATIC_SHELTER_DB"

\* planner line 376: merged = {cat: [] for cat in SHELTER_CATEGORIES}, a new
\* dict of new lists, the target of setdefault and append
MergedObject == "merged"

\* the value of an object after a call that left `stores` in the objects it wrote
Stored(obj, stores, old) == IF obj \in DOMAIN stores THEN stores[obj] ELSE old

\* evacuation_routes.py lines 598-604: candidates after append and sort
CandidatesStores(lat, lon) ==
    (CandidatesObject :> find_nearest_safe_zone(SAFE_ZONES, lat, lon, DefaultExcludeRadiusKm, Len(SAFE_ZONES)))

\* vulnerable_populations tried: one entry without 'vulnerable_count'
VulnerablePopulations ==
    ("Paradise, CA" :> [lat |-> 34, lon |-> -118, vulnerable_count |-> Some(120)]) @@
    ("Reno" :> [lat |-> 35, lon |-> -118, vulnerable_count |-> NoneNum])

\* fire_data tried: two rows of the same name
FireRows ==
    << [fire_name |-> "Test Fire", latitude |-> 35000, longitude |-> -118000],
       [fire_name |-> "Test Fire", latitude |-> 34130, longitude |-> -118000] >>

AlertSamples ==
    { [Location |-> l, Fire_Name |-> f] :
        l \in {"Paradise, CA", "Reno", "Elsewhere, TX"}, f \in {"Test Fire", "Unknown Fire"} }

AlertLists == { <<>> } \cup { <<a>> : a \in AlertSamples } \cup
              { <<a, b>> : a \in {x \in AlertSamples : x.Fire_Name = "Test Fire"}, b \in AlertSamples }

\* evacuation_routes.py line 669: location_name.split(',')[-1].strip() if ',' in location_name else None
LocationState(location_name) ==
    CASE location_name = "Paradise, CA" -> [given |-> TRUE, code |-> "CA"]
      [] location_name = "Elsewhere, TX" -> [given |-> TRUE, code |-> "TX"]
      [] OTHER -> NoState

\* evacuation_routes.py lines 656-680
generate_evacuation_routes_for_alerts(fire_data, vulnerable_populations, alerts) ==
    LET F[i \in 0..Len(alerts)] ==
            IF i = 0 THEN <<>>
            ELSE LET location_name == alerts[i].Location
                     fire_name == alerts[i].Fire_Name
                     fire_row == SelectSeq(fire_data, LAMBDA r : r.fire_name = fire_name)
                 IN IF location_name \notin DOMAIN vulnerable_populations \/ fire_row = <<>>
                    THEN F[i - 1]
                    ELSE LET vuln_data == vulnerable_populations[location_name]
                             plan == calculate_evacuation_plan(vuln_data.lat, vuln_data.lon,
                                         fire_row[1].latitude, fire_row[1].longitude,
                                         fire_name, LocationState(location_name))
                         IN Append(F[i - 1],
                                [location |-> location_name,
                                 vulnerable_count |-> IF vuln_data.vulnerable_count.none THEN 0
                                                      ELSE vuln_data.vulnerable_count.value] @@ plan)
    IN F[Len(alerts)]

\* fire positions and live lists tried in a sequence of calls
EngineFireOffsets == { <<130, 0>>, <<355, 0>>, <<1000, 0>> }

EngineLiveLists == { live \in LiveLists : Len(live) <= 1 }

\* one call: its result, and the objects it wrote to with what it left there
EngineReturn(op, result, stores) ==
    /\ SAFE_ZONES' = Stored("SAFE_ZONES", stores, SAFE_ZONES)
    /\ MAJOR_HIGHWAYS' = Stored("MAJOR_HIGHWAYS", stores, MAJOR_HIGHWAYS)
    /\ g_STATIC_SHELTER_DB' = Stored("STATIC_SHELTER_DB", stores, g_STATIC_SHELTER_DB)
    /\ g_SHELTER_CATEGORIES' = Stored("SHELTER_CATEGORIES", stores, g_SHELTER_CATEGORIES)
    /\ g_TAG_CATEGORY_MAP' = Stored("_TAG_CATEGORY_MAP", stores, g_TAG_CATEGORY_MAP)
    /\ g_written' = DOMAIN stores
    /\ g_result' = [op |-> op, value |-> result]
    /\ g_ops' = g_ops \cup {op}
    /\ UNCHANGED g_built
    /\ UNCHANGED <<z_pc, z_lat, z_lon, z_exclude, z_top_n, z_out>>
    /\ UNCHANGED <<h_pc, h_lat, h_lon, h_state, h_out, h_compared>>
    /\ UNCHANGED <<fvars, cvars, mvars, pvars, rvars, dvars, evars, ovars, lvars, wvars, svars, tvars>>

\* evacuation_routes.py lines 592-605
EngineZoneCall ==
    \E p \in PlanVulnerablePoints :
        EngineReturn("find_nearest_safe_zone",
                     find_nearest_safe_zone(SAFE_ZONES, p[1], p[2], DefaultExcludeRadiusKm, DefaultTopN),
                     CandidatesStores(p[1], p[2]))

\* evacuation_routes.py lines 88-102: only local names are rebound
EngineHighwayCall ==
    \E p \in PlanVulnerablePoints, state \in StateArgs :
        EngineReturn("find_nearest_highway",
                     find_nearest_highway(MAJOR_HIGHWAYS, p[1], p[2], state).best,
                     <<>>)

\* evacuation_routes.py lines 609-653
EnginePlanCall ==
    \E p \in PlanVulnerablePoints, o \in EngineFireOffsets, state \in {NoState, [given |-> TRUE, code |-> "NV"]} :
        EngineReturn("calculate_evacuation_plan",
                     calculate_evacuation_plan(p[1], p[2], p[1] * 1000 + o[1], p[2] * 1000 + o[2], "Test Fire", state),
                     CandidatesStores(p[1], p[2]))

\* evacuation_routes.py lines 656-680
EngineAlertsCall ==
    \E alerts \in AlertLists :
        LET evacuation_plans == generate_evacuation_routes_for_alerts(FireRows, VulnerablePopulations, alerts) IN
        EngineReturn("generate_evacuation_routes_for_alerts",
                     evacuation_plans,
                     IF evacuation_plans = <<>>
                     THEN (PlansObject :> evacuation_plans)
                     ELSE (PlansObject :> evacuation_plans) @@
                          (PlanObject :> evacuation_plans[Len(evacuation_plans)]) @@
                          CandidatesStores(VulnerablePopulations[evacuation_plans[Len(evacuation_plans)].location].lat,
                                           VulnerablePopulations[evacuation_plans[Len(evacuation_plans)].location].lon))

\* planner lines 371-400
EngineMergeCall ==
    \E live \in EngineLiveLists, dest \in PlanVulnerablePoints :
        LET merged == merge_shelters(live, dest[1], dest[2]) IN
        EngineReturn("_merge_shelters", merged, (MergedObject :> merged))

NoResult == [op |-> "none", value |-> <<>>]

EngineIdle ==
    /\ g_STATIC_SHELTER_DB = <<>>
    /\ g_SHELTER_CATEGORIES = <<>>
    /\ g_TAG_CATEGORY_MAP = <<>>
    /\ g_built = <<>>
    /\ g_ops = {}
    /\ g_result = NoResult
    /\ g_written = {}

EngineInit ==
    /\ SAFE_ZONES \in { SubSeq(PlanZones, 1, 2), PlanZones }
    /\ MAJOR_HIGHWAYS \in PlanHighwayRegistries
    /\ g_STATIC_SHELTER_DB = STATIC_SHELTER_DB
    /\ g_SHELTER_CATEGORIES = SHELTER_CATEGORIES
    /\ g_TAG_CATEGORY_MAP = TAG_CATEGORY_MAP
    /\ g_built = [SAFE_ZONES |-> SAFE_ZONES, MAJOR_HIGHWAYS |-> MAJOR_HIGHWAYS,
                  STATIC_SHELTER_DB |-> STATIC_SHELTER_DB, SHELTER_CATEGORIES |-> SHELTER_CATEGORIES,
                  TAG_CATEGORY_MAP |-> TAG_CATEGORY_MAP]
    /\ g_ops = {}
    /\ g_result = NoResult
    /\ g_written = {}

EngineNext == EngineZoneCall \/ EngineHighwayCall \/ EnginePlanCall \/ EngineAlertsCall \/ EngineMergeCall

\* ------------------------------------------------------------------------
\* fetch_where_in: the chunked fetch without retries
\* ------------------------------------------------------------------------
\* line 96: pd.Series(values).dropna().unique().tolist(); the values keep
\* their type, so 7 and "7" stay two values and "" stays
NormaliseValues(raw) == Unique(DropNa(raw))

\* line 91: chunk: int = 200
DefaultChunk == 200

\* value lists and chunk sizes tried
ChunkedUidLists ==
    { <<>>,
      << <<"null", "">>, <<"str", "">> >>,
      << <<"str", "a">>, <<"null", "">>, <<"int", "7">>, <<"str", "a">> >>,
      SubSeq(LongUidList, 1, 3) }

ChunkedSizes == {1, 2, DefaultChunk}

\* lines 96-98
WhereInCall ==
    /\ w_pc = "idle"
    /\ w_vals' = NormaliseValues(w_values)
    /\ IF w_vals' = <<>>
       THEN /\ w_pc' = "returned"
            /\ w_out' = [kind |-> "returned", rows |-> <<>>]
       ELSE /\ w_pc' = "request"
            /\ w_out' = w_out
    /\ UNCHANGED <<w_values, w_chunk, w_off, w_rows, w_log>>
    /\ UNCHANGED <<fvars, cvars, zvars, hvars, mvars, pvars, rvars, dvars, evars, ovars, lvars, gvars, svars, tvars>>

\* lines 101-108: one batch is answered
WhereInBatch ==
    /\ w_pc = "request"
    /\ \E d \in RespData(Len(w_log) + 1) :
         /\ w_log' = Append(w_log, [off |-> w_off, part |-> Slice(w_vals, w_off, w_chunk), outcome |-> "ok"])
         /\ w_rows' = w_rows \o DataOrEmpty(d)
         /\ w_off' = w_off + w_chunk
         /\ IF w_off' < Len(w_vals)
            THEN /\ w_pc' = "request"
                 /\ w_out' = w_out
            ELSE /\ w_pc' = "returned"
                 /\ w_out' = [kind |-> "returned", rows |-> w_rows']
    /\ UNCHANGED <<w_values, w_chunk, w_vals>>
    /\ UNCHANGED <<fvars, cvars, zvars, hvars, mvars, pvars, rvars, dvars, evars, ovars, lvars, gvars, svars, tvars>>

\* line 106: q.execute() raises; nothing catches it
WhereInError ==
    /\ w_pc = "request"
    /\ w_log' = Append(w_log, [off |-> w_off, part |-> Slice(w_vals, w_off, w_chunk), outcome |-> "fail"])
    /\ w_pc' = "raised"
    /\ w_out' = [kind |-> "raised", rows |-> <<>>]
    /\ UNCHANGED <<w_values, w_chunk, w_vals, w_off, w_rows>>
    /\ UNCHANGED <<fvars, cvars, zvars, hvars, mvars, pvars, rvars, dvars, evars, ovars, lvars, gvars, svars, tvars>>

WhereInNotCalled ==
    /\ w_pc = "idle"
    /\ w_vals = <<>>
    /\ w_off = 0
    /\ w_rows = <<>>
    /\ w_out = [kind |-> "none", rows |-> <<>>]
    /\ w_log = <<>>

WhereInIdle ==
    /\ w_values = <<>>
    /\ w_chunk = DefaultChunk
    /\ WhereInNotCalled

WhereInInit ==
    /\ w_values \in ChunkedUidLists
    /\ w_chunk \in ChunkedSizes
    /\ WhereInNotCalled

WhereInNext == WhereInCall \/ WhereInBatch \/ WhereInError

\* the same values fetched at the same chunk size by fetch_where_in and by
\* fetch_evac_zones_for_uids_with_fallback
ChunkedInit ==
    /\ WhereInInit
    /\ f_arg_uids = w_values
    /\ f_first = w_chunk
    /\ FetchNotCalled

ChunkedNext == FetchNext \/ WhereInNext

\* ------------------------------------------------------------------------
\* The planner page's session: reruns and searches
\* ------------------------------------------------------------------------
\* search_address = None
NoAddress == "<None>"

\* dynamic_safe_zones = None
NoZones == [none |-> TRUE, list |-> <<>>]

\* lines 432-440: the defaults of the session keys
SessionDefaults ==
    [search_address |-> NoAddress, search_coords |-> NonePoint, search_triggered |-> FALSE,
     dynamic_safe_zones |-> NoZones, selected_zone_idx |-> 0, cached_routes |-> <<>>]

\* what the text input holds when the page runs
AddressInputs == {"", "Fresno, CA", "Reno"}

\* geocode_address (lines 68-87): None, or the coordinates found, in units of
\* 0.00001 degree
GeocodeResults == {NonePoint, <<3400000, -11800000>>, <<3600000, -11900000>>}

\* safe zones with the first shelter resolved near each
SessionZones ==
    << [name |-> "Bakersfield", lat |-> 3500000, lon |-> -11700000, shelter |-> <<3500100, -11700000>>],
       [name |-> "Barstow", lat |-> 3400000, lon |-> -11600000, shelter |-> <<3400100, -11600000>>] >>

\* lists get_dynamic_safe_zones can return
SessionZoneLists == { SubSeq(SessionZones, 1, n) : n \in 0..Len(SessionZones) }

\* the router's answers tried for the car profile; the foot profile is answered
SessionCarResponses ==
    { [kind |-> "ok", distance |-> 1609, duration |-> 120], [kind |-> "non200", distance |-> 0, duration |-> 0] }

SessionFootResponse == [kind |-> "ok", distance |-> 3000, duration |-> 2250]

\* variant: a new search keeps the routes of the session
SearchInputKeepsRoutes(session, search_button, address) ==
    IF search_button /\ address # ""
    THEN [session EXCEPT !.search_triggered = TRUE, !.search_address = address,
                         !.search_coords = NonePoint, !.dynamic_safe_zones = NoZones]
    ELSE session

\* lines 457-462: if search_button and address
SearchInput(session, search_button, address) ==
    IF search_button /\ address # ""
    THEN [session EXCEPT !.search_triggered = TRUE, !.search_address = address,
                         !.search_coords = NonePoint, !.dynamic_safe_zones = NoZones,
                         !.cached_routes = <<>>]
    ELSE session

\* lines 480-482: geocode only while no coordinates are locked
Geocoded(session, geocoded) ==
    IF session.search_coords = NonePoint THEN [session EXCEPT !.search_coords = geocoded] ELSE session

\* lines 493-498: ask for safe zones only while none are stored
WithSafeZones(session, zones) ==
    IF session.dynamic_safe_zones.none
    THEN [session EXCEPT !.dynamic_safe_zones = [none |-> FALSE, list |-> zones]]
    ELSE session

\* lines 651-656: the routes to dest_key, asked from the locked origin
\* unless the key is cached
WithRoutes(session, dest_key, car_resp, foot_resp) ==
    IF dest_key \in DOMAIN session.cached_routes
    THEN session
    ELSE [session EXCEPT !.cached_routes =
            (dest_key :> [car |-> osrm_route(car_resp), foot |-> osrm_route(foot_resp)]) @@ @]

NothingShown == [displayed |-> FALSE, dest_key |-> <<0, 0>>, from_cache |-> FALSE,
                 origin |-> NonePoint, asked_from |-> NonePoint]

\* one run of the page ends: the session it leaves and what it displayed
PageReturn(session, shown) ==
    /\ session_state' = session
    /\ s_shown' = shown
    /\ s_route_origins' =
         [k \in DOMAIN session.cached_routes |->
            IF k \in DOMAIN session_state.cached_routes /\ k \in DOMAIN s_route_origins
               /\ ~(shown.displayed /\ ~shown.from_cache /\ shown.dest_key = k)
            THEN s_route_origins[k]
            ELSE session.search_coords]
    /\ s_earlier_origins' =
         IF session.search_coords # NonePoint /\ session.search_coords # session_state.search_coords
         THEN s_earlier_origins \cup ({session_state.search_coords} \ {NonePoint})
         ELSE s_earlier_origins

\* lines 432-682: one run of the page.  Each answer from outside is drawn
\* where the run asks for it: the geocoder's only while no coordinates are
\* locked, the safe zones only while none are stored, the router's only for
\* a destination that is not cached
PageRun ==
    /\ \E search_button \in BOOLEAN, address \in AddressInputs :
         LET searched == SearchInput(session_state, search_button, address) IN
         IF ~searched.search_triggered
         THEN PageReturn(searched, NothingShown)
         ELSE \E geocoded \in (IF searched.search_coords = NonePoint THEN GeocodeResults ELSE {NonePoint}) :
           LET located == Geocoded(searched, geocoded) IN
           IF located.search_coords = NonePoint
           THEN PageReturn(located, NothingShown)
           ELSE \E zones \in (IF located.dynamic_safe_zones.none THEN SessionZoneLists ELSE {<<>>}) :
             LET zoned == WithSafeZones(located, zones)
                 safe_zone_list == zoned.dynamic_safe_zones.list
             IN IF safe_zone_list = <<>>
                THEN PageReturn(zoned, NothingShown)
                ELSE \E sel_idx \in 0..(Len(safe_zone_list) - 1), shelter_found \in BOOLEAN :
                  LET zone == safe_zone_list[sel_idx + 1]
                      primary_shelter == IF shelter_found THEN zone.shelter ELSE <<zone.lat, zone.lon>>
                      dest_key == DestKey(primary_shelter[1], primary_shelter[2])
                      picked == [zoned EXCEPT !.selected_zone_idx = sel_idx]
                      cached == dest_key \in DOMAIN picked.cached_routes
                  IN \E car_resp \in (IF cached THEN {SessionFootResponse} ELSE SessionCarResponses) :
                       LET routed == WithRoutes(picked, dest_key, car_resp, SessionFootResponse) IN
                       PageReturn(routed,
                                  [displayed |-> TRUE, dest_key |-> dest_key, from_cache |-> cached,
                                   origin |-> routed.search_coords,
                                   asked_from |-> IF cached THEN s_route_origins[dest_key]
                                                  ELSE routed.search_coords])
    /\ UNCHANGED <<fvars, cvars, zvars, hvars, mvars, pvars, rvars, dvars, evars, ovars, lvars, gvars, wvars, tvars>>

SessionIdle ==
    /\ session_state = SessionDefaults
    /\ s_route_origins = <<>>
    /\ s_earlier_origins = {}
    /\ s_shown = NothingShown

SessionInit == SessionIdle

SessionNext == PageRun

\* ------------------------------------------------------------------------
\* Fire threats: the page's badges and the plan's urgency
\* ------------------------------------------------------------------------
\* most fire rows enumerated
MaxFires == 2

\* planner lines 59-64 and 513: round(_haversine(...), 1) for a fire at one of
\* the offsets from the subject, in tenths of a mile; the key is
\* <<lat1, lat2 - lat1, lon2 - lon1>> in thousandths of a degree
FireMiTable ==
    (<<34000, 0, 0>> :> 0) @@ (<<34000, 130, 0>> :> 90) @@ (<<34000, 135, 0>> :> 93) @@ (<<34000, 355, 0>> :> 245) @@
    (<<34000, 360, 0>> :> 249) @@ (<<34000, 1000, 0>> :> 690) @@ (<<34000, 200, 200>> :> 179) @@ (<<34000, -200, 0>> :> 138) @@
    (<<34000, 0, 200>> :> 114) @@ (<<34000, 0, -200>> :> 114) @@ (<<34000, -200, -200>> :> 179) @@ (<<34000, 200, -200>> :> 179) @@
    (<<34000, -200, 200>> :> 179) @@ (<<34000, 2000, 0>> :> 1381) @@ (<<35000, 0, 0>> :> 0) @@ (<<35000, 130, 0>> :> 90) @@
    (<<35000, 135, 0>> :> 93) @@ (<<35000, 355, 0>> :> 245) @@ (<<35000, 360, 0>> :> 249) @@ (<<35000, 1000, 0>> :> 690) @@
    (<<35000, 200, 200>> :> 178) @@ (<<35000, -200, 0>> :> 138) @@ (<<35000, 0, 200>> :> 113) @@ (<<35000, 0, -200>> :> 113) @@
    (<<35000, -200, -200>> :> 179) @@ (<<35000, 200, -200>> :> 178) @@ (<<35000, -200, 200>> :> 179) @@ (<<35000, 2000, 0>> :> 1381)

haversine_miles(lat1, lon1, lat2, lon2) == FireMiTable[<<lat1, lat2 - lat1, lon2 - lon1>>]

\* fire positions tried: those of the plan and one beyond 100 miles
ThreatOffsets == FireOffsets \cup { <<2000, 0>> }

\* one longer list of fires, all within 100 miles
ThreatLongOffsets == << <<1000, 0>>, <<360, 0>>, <<355, 0>>, <<200, 200>>, <<135, 0>>, <<130, 0>> >>

ThreatOffsetLists ==
    UNION { [1..n -> ThreatOffsets] : n \in 0..MaxFires } \cup { ThreatLongOffsets }

\* planner line 509: if d < 100 (none of the distances tried is within 0.05
\* mile of 100, so the rounded distance decides as the exact one does)
WithinRange(d) == d < 1000

\* planner line 521: nearest_fires[:5]
ThreatsShown == 5

\* planner line 522, on the distance in tenths of a mile
Badge(distance) == IF distance < 150 THEN "HIGH" ELSE IF distance < 400 THEN "MEDIUM" ELSE "LOW"

\* planner lines 503-516: the fires within range, in row order
NearestFires(origin, fire_data) ==
    LET F[i \in 0..Len(fire_data)] ==
            IF i = 0 THEN <<>>
            ELSE LET fire == fire_data[i]
                     d == haversine_miles(origin[1] * 1000, origin[2] * 1000, fire.latitude, fire.longitude)
                 IN IF WithinRange(d)
                    THEN Append(F[i - 1], [name |-> fire.fire_name, d |-> d, row |-> i])
                    ELSE F[i - 1]
    IN F[Len(fire_data)]

\* planner lines 517-524: the lines written, nearest first
FireThreatLines(origin, fire_data) ==
    LET nearest_fires == SortByDistance(NearestFires(origin, fire_data))
        shown == Take(nearest_fires, ThreatsShown)
    IN [k \in 1..Len(shown) |->
          [row |-> shown[k].row, name |-> shown[k].name, distance |-> shown[k].d, badge |-> Badge(shown[k].d)]]

\* planner lines 502-526
FireThreatList ==
    /\ t_page = "idle"
    /\ t_badges' = FireThreatLines(t_origin, t_fire_data)
    /\ t_page' = "done"
    /\ UNCHANGED <<t_origin, t_fire_data, t_engine, t_urgency>>
    /\ UNCHANGED <<fvars, cvars, zvars, hvars, mvars, pvars, rvars, dvars, evars, ovars, lvars, gvars, wvars, svars>>

\* evacuation_routes.py lines 609-653, for the subject and each fire
ThreatPlans ==
    /\ t_engine = "idle"
    /\ t_urgency' = [i \in 1..Len(t_fire_data) |->
                       calculate_evacuation_plan(t_origin[1], t_origin[2],
                                                 t_fire_data[i].latitude, t_fire_data[i].longitude,
                                                 t_fire_data[i].fire_name, NoState).urgency]
    /\ t_engine' = "done"
    /\ UNCHANGED <<t_origin, t_fire_data, t_page, t_badges>>
    /\ UNCHANGED <<fvars, cvars, zvars, hvars, mvars, pvars, rvars, dvars, evars, ovars, lvars, gvars, wvars, svars>>

ThreatNotCalled ==
    /\ t_page = "idle"
    /\ t_engine = "idle"
    /\ t_badges = <<>>
    /\ t_urgency = <<>>

ThreatIdle ==
    /\ t_origin = <<34, -118>>
    /\ t_fire_data = <<>>
    /\ ThreatNotCalled

ThreatInit ==
    /\ t_origin \in PlanVulnerablePoints
    /\ \E offsets \in ThreatOffsetLists :
         t_fire_data = [i \in 1..Len(offsets) |->
                          [fire_name |-> "Test Fire",
                           latitude |-> t_origin[1] * 1000 + offsets[i][1],
                           longitude |-> t_origin[2] * 1000 + offsets[i][2]]]
    /\ ThreatNotCalled

ThreatNext == FireThreatList \/ ThreatPlans

\* ------------------------------------------------------------------------
\* Specifications
\* ------------------------------------------------------------------------
vars == <<fvars, cvars, zvars, hvars, mvars, pvars, rvars, dvars, evars, ovars, lvars, gvars, wvars, svars, tvars>>

InitFetch == FetchInit /\ CacheIdle /\ ZoneIdle /\ HighwayIdle /\ MergeIdle /\ PagedIdle /\ RoutesIdle /\ DirectionIdle /\ PlanIdle /\ QueryIdle /\ LabelIdle /\ EngineIdle /\ WhereInIdle /\ SessionIdle /\ ThreatIdle

SpecFetch == InitFetch /\ [][FetchNext]_vars

InitCache == FetchIdle /\ CacheInit /\ ZoneIdle /\ HighwayIdle /\ MergeIdle /\ PagedIdle /\ RoutesIdle /\ DirectionIdle /\ PlanIdle /\ QueryIdle /\ LabelIdle /\ EngineIdle /\ WhereInIdle /\ SessionIdle /\ ThreatIdle

SpecCache == InitCache /\ [][CacheNext]_vars

InitZone == FetchIdle /\ CacheIdle /\ ZoneInit /\ HighwayIdle /\ MergeIdle /\ PagedIdle /\ RoutesIdle /\ DirectionIdle /\ PlanIdle /\ QueryIdle /\ LabelIdle /\ EngineIdle /\ WhereInIdle /\ SessionIdle /\ ThreatIdle

SpecZone == InitZone /\ [][ZoneNext]_vars

InitHighway == FetchIdle /\ CacheIdle /\ ZoneIdle /\ HighwayInit /\ MergeIdle /\ PagedIdle /\ RoutesIdle /\ DirectionIdle /\ PlanIdle /\ QueryIdle /\ LabelIdle /\ EngineIdle /\ WhereInIdle /\ SessionIdle /\ ThreatIdle

SpecHighway == InitHighway /\ [][HighwayNext]_vars

InitMerge == FetchIdle /\ CacheIdle /\ ZoneIdle /\ HighwayIdle /\ MergeInit /\ PagedIdle /\ RoutesIdle /\ DirectionIdle /\ PlanIdle /\ QueryIdle /\ LabelIdle /\ EngineIdle /\ WhereInIdle /\ SessionIdle /\ ThreatIdle

SpecMerge == InitMerge /\ [][MergeNext]_vars

InitPaged == FetchIdle /\ CacheIdle /\ ZoneIdle /\ HighwayIdle /\ MergeIdle /\ PagedInit /\ RoutesIdle /\ DirectionIdle /\ PlanIdle /\ QueryIdle /\ LabelIdle /\ EngineIdle /\ WhereInIdle /\ SessionIdle /\ ThreatIdle

SpecPaged == InitPaged /\ [][PagedNext]_vars

InitRoutes == FetchIdle /\ CacheIdle /\ ZoneIdle /\ HighwayIdle /\ MergeIdle /\ PagedIdle /\ RoutesInit /\ DirectionIdle /\ PlanIdle /\ QueryIdle /\ LabelIdle /\ EngineIdle /\ WhereInIdle /\ SessionIdle /\ ThreatIdle

SpecRoutes == InitRoutes /\ [][RoutesNext]_vars

InitDirection == FetchIdle /\ CacheIdle /\ ZoneIdle /\ HighwayIdle /\ MergeIdle /\ PagedIdle /\ RoutesIdle /\ DirectionInit /\ PlanIdle /\ QueryIdle /\ LabelIdle /\ EngineIdle /\ WhereInIdle /\ SessionIdle /\ ThreatIdle

SpecDirection == InitDirection /\ [][DirectionNext]_vars

InitPlan == FetchIdle /\ CacheIdle /\ ZoneNotCalled /\ HighwayNotCalled /\ MergeIdle /\ PagedIdle /\ RoutesIdle /\ DirectionIdle /\ PlanInit /\ QueryIdle /\ LabelIdle /\ EngineIdle /\ WhereInIdle /\ SessionIdle /\ ThreatIdle

SpecPlan == InitPlan /\ [][PlanNext]_vars

InitQuery == FetchIdle /\ CacheIdle /\ ZoneIdle /\ HighwayIdle /\ MergeIdle /\ PagedIdle /\ RoutesIdle /\ DirectionIdle /\ PlanIdle /\ QueryInit /\ LabelIdle /\ EngineIdle /\ WhereInIdle /\ SessionIdle /\ ThreatIdle

SpecQuery == InitQuery /\ [][QueryNext]_vars

InitLabel == FetchIdle /\ CacheIdle /\ ZoneIdle /\ HighwayIdle /\ MergeIdle /\ PagedIdle /\ RoutesIdle /\ DirectionIdle /\ PlanIdle /\ QueryIdle /\ LabelInit /\ EngineIdle /\ WhereInIdle /\ SessionIdle /\ ThreatIdle

SpecLabel == InitLabel /\ [][LabelNext]_vars

InitEngine == FetchIdle /\ CacheIdle /\ ZoneNotCalled /\ HighwayNotCalled /\ MergeIdle /\ PagedIdle /\ RoutesIdle /\ DirectionIdle /\ PlanIdle /\ QueryIdle /\ LabelIdle /\ EngineInit /\ WhereInIdle /\ SessionIdle /\ ThreatIdle

SpecEngine == InitEngine /\ [][EngineNext]_vars

InitChunked == ChunkedInit /\ CacheIdle /\ ZoneIdle /\ HighwayIdle /\ MergeIdle /\ PagedIdle /\ RoutesIdle /\ DirectionIdle /\ PlanIdle /\ QueryIdle /\ LabelIdle /\ EngineIdle /\ SessionIdle /\ ThreatIdle

SpecChunked == InitChunked /\ [][ChunkedNext]_vars

InitSession == FetchIdle /\ CacheIdle /\ ZoneIdle /\ HighwayIdle /\ MergeIdle /\ PagedIdle /\ RoutesIdle /\ DirectionIdle /\ PlanIdle /\ QueryIdle /\ LabelIdle /\ EngineIdle /\ WhereInIdle /\ SessionInit /\ ThreatIdle

SpecSession == InitSession /\ [][SessionNext]_vars

InitThreat == FetchIdle /\ CacheIdle /\ ZoneIdle /\ HighwayIdle /\ MergeIdle /\ PagedIdle /\ RoutesIdle /\ DirectionIdle /\ PlanIdle /\ QueryIdle /\ LabelIdle /\ EngineIdle /\ WhereInIdle /\ SessionIdle /\ ThreatInit

SpecThreat == InitThreat /\ [][ThreatNext]_vars

\* ------------------------------------------------------------------------
\* Properties of the chunked set fetch (SpecFetch)
\* ------------------------------------------------------------------------
\* the ladder of chunk sizes of one call
Ladder == <<f_first, 100, 50, 25>>

IsTimeoutFailure(l) == l.outcome = "fail" /\ l.signal = "timeout"

IsOtherFailure(l) == l.outcome = "fail" /\ l.signal = "other"

\* C1: when a batch request fails with the transient-timeout signal, no
\* further batch of that attempt is issued, and the next request issued is
\* the first batch (offset 0) of a fresh attempt over the whole uid list at
\* the next chunk size of the ladder.
C1_TimeoutRestartsAtNextSize ==
    \A j \in 1..Len(f_log) :
        IsTimeoutFailure(f_log[j]) =>
            /\ \A k \in (j + 1)..Len(f_log) : f_log[k].att # f_log[j].att
            /\ j < Len(f_log) =>
                 LET nxt == f_log[j + 1]
                     size == Ladder[f_log[j].att + 1]
                 IN /\ nxt.att = f_log[j].att + 1
                    /\ nxt.chunk = size
                    /\ nxt.off = 0
                    /\ nxt.part = SubSeq(f_uids, 1, Min(size, Len(f_uids)))
            /\ (j = Len(f_log) /\ f_pc = "request") =>
                 /\ f_att = f_log[j].att + 1
                 /\ f_off = 0

\* a timeout struck after earlier batches of the attempt had succeeded, and
\* the call went on to issue another request
C1_Witness ==
    \E j \in 1..Len(f_log) :
        /\ IsTimeoutFailure(f_log[j])
        /\ f_log[j].off > 0
        /\ j < Len(f_log)

AllSizesTimedOut ==
    \A a \in 1..Len(Ladder) : \E j \in 1..Len(f_log) : f_log[j].att = a /\ IsTimeoutFailure(f_log[j])

\* C2: when every chunk size of the ladder hit the transient timeout, the
\* call has raised the error of the last request, which is the failure at
\* the smallest size, and no request follows it.
C2_ExhaustedLadderRaisesLastError ==
    AllSizesTimedOut =>
        /\ f_pc = "raised"
        /\ f_out.kind = "raised"
        /\ f_log[Len(f_log)].att = Len(Ladder)
        /\ IsTimeoutFailure(f_log[Len(f_log)])
        /\ f_out.err.type = "APIError"
        /\ f_out.err.req = Len(f_log)

C2_Witness == AllSizesTimedOut /\ f_pc = "raised" /\ Len(f_log) > Len(Ladder)

\* C3: a batch failure that is not the transient-timeout signal is the last
\* request of the call, and the call has raised exactly that error.
C3_OtherFailureAbortsAtOnce ==
    \A j \in 1..Len(f_log) :
        IsOtherFailure(f_log[j]) =>
            /\ j = Len(f_log)
            /\ f_pc = "raised"
            /\ f_out.kind = "raised"
            /\ f_out.err.req = j
            /\ f_out.err.type # "None"

\* an APIError without the timeout signal, with smaller ladder sizes left
C3_Witness ==
    /\ f_pc = "raised"
    /\ Len(f_log) > 0
    /\ IsOtherFailure(f_log[Len(f_log)])
    /\ f_log[Len(f_log)].att < Len(Ladder)
    /\ f_out.err.type = "APIError"

\* the rows of the successful responses of attempt a, in request order
RowsOfAttempt(a) ==
    LET F[i \in 0..Len(f_log)] ==
            IF i = 0 THEN <<>>
            ELSE IF f_log[i].att = a /\ f_log[i].outcome = "ok" /\ ~f_log[i].data.none
                 THEN F[i - 1] \o f_log[i].data.rows
                 ELSE F[i - 1]
    IN F[Len(f_log)]

\* the last request succeeded and was the last batch of its attempt
AttemptCompleted ==
    /\ Len(f_log) > 0
    /\ f_log[Len(f_log)].outcome = "ok"
    /\ f_log[Len(f_log)].off + f_log[Len(f_log)].chunk >= Len(f_uids)

\* C4: once an attempt completes (after timeouts at any prefix of the
\* ladder), the call has returned, and the rows returned are exactly the
\* rows of that attempt's batches in batch order; none comes from a request
\* of an abandoned attempt.
C4_ReturnsRowsOfSuccessfulAttempt ==
    AttemptCompleted =>
        LET a == f_log[Len(f_log)].att IN
        /\ f_pc = "returned"
        /\ f_out.kind = "returned"
        /\ f_out.rows = RowsOfAttempt(a)
        /\ \A i \in 1..Len(f_out.rows) : f_log[f_out.rows[i].req].att = a

\* timeouts at 200, 100 and 50, success at 25, with rows fetched both by an
\* abandoned attempt and by the successful one
C4_Witness ==
    /\ f_pc = "returned"
    /\ f_att = Len(Ladder)
    /\ f_out.rows # <<>>
    /\ \E j \in 1..Len(f_log) :
         f_log[j].att < f_att /\ f_log[j].outcome = "ok" /\ f_log[j].data.rows # <<>>

\* ------------------------------------------------------------------------
\* Properties of the caches (SpecCache)
\* ------------------------------------------------------------------------
\* C5: no cache holds an entry produced by a failed external fetch, and no
\* call is answered from a cache with a result that stands for a failure.
C5_NoFailureCached ==
    /\ \A p \in DOMAIN c_overpass : ~c_overpass[p].failed
    /\ \A c \in DOMAIN c_ncdot : ~c_ncdot[c].failed
    /\ \A k \in DOMAIN c_routes : ~RouteFailed(c_routes[k])
    /\ ~(c_answer.from_cache /\ c_answer.failed)

\* ------------------------------------------------------------------------
\* Properties of find_nearest_safe_zone (SpecZone)
\* ------------------------------------------------------------------------
ZoneDistance(k) == haversine_distance(z_lat, z_lon, SAFE_ZONES[k].lat, SAFE_ZONES[k].lon)

QualifyingZones == {k \in 1..Len(SAFE_ZONES) : ZoneDistance(k) >= z_exclude}

ZoneEntry(k) ==
    [name |-> SAFE_ZONES[k].name, d |-> ZoneDistance(k), point |-> <<SAFE_ZONES[k].lat, SAFE_ZONES[k].lon>>]

\* C6: every returned entry is a registry zone with its haversine distance
\* from the origin, and that distance is at least exclude_radius_km.
C6_ResultsOutsideExcludeRadius ==
    z_pc = "done" =>
        \A i \in 1..Len(z_out) :
            /\ \E k \in 1..Len(SAFE_ZONES) : z_out[i] = ZoneEntry(k)
            /\ z_out[i].d >= z_exclude

\* a call that returned zones while the registry also held a zone inside
\* the exclude radius
C6_Witness ==
    /\ z_pc = "done"
    /\ z_out # <<>>
    /\ \E k \in 1..Len(SAFE_ZONES) : ZoneDistance(k) < z_exclude

\* zone j comes before zone k: nearer, or as near and inserted earlier
ZoneBefore(j, k) ==
    \/ ZoneDistance(j) < ZoneDistance(k)
    \/ ZoneDistance(j) = ZoneDistance(k) /\ j < k

ZoneRank(k) == Cardinality({j \in QualifyingZones : ZoneBefore(j, k)}) + 1

\* C7: for top_n >= 0 the result is the first min(top_n, #qualifying)
\* qualifying zones by non-decreasing distance, equal distances in registry
\* insertion order; it is empty when no zone qualifies.
C7_NearestFirstStableTruncated ==
    (z_pc = "done" /\ z_top_n >= 0) =>
        /\ Len(z_out) = Min(z_top_n, Cardinality(QualifyingZones))
        /\ \A k \in QualifyingZones : ZoneRank(k) <= Len(z_out) => z_out[ZoneRank(k)] = ZoneEntry(k)

\* two zones at the same distance are both returned, and a farther
\* qualifying zone is cut off by top_n
C7_Witness ==
    /\ z_pc = "done"
    /\ z_top_n >= 0
    /\ Len(z_out) < Cardinality(QualifyingZones)
    /\ \E i \in 1..Len(z_out) : \E j \in 1..Len(z_out) : i < j /\ z_out[i].d = z_out[j].d

\* ------------------------------------------------------------------------
\* Properties of find_nearest_highway (SpecHighway)
\* ------------------------------------------------------------------------
HighwaysOfState == {i \in 1..Len(MAJOR_HIGHWAYS) : InList(h_state.code, MAJOR_HIGHWAYS[i].states)}

StateFilterGiven == h_state.given /\ h_state.code # ""

\* C8: with a state filter only the highways of that state are measured
\* and returned; when there is none the result is "not found" (name None,
\* point None), whatever else the registry holds.
C8_StateFilterIsExclusionary ==
    (h_pc = "done" /\ StateFilterGiven) =>
        /\ h_compared \subseteq HighwaysOfState
        /\ h_out.nearest_highway # NoneName =>
             \E i \in HighwaysOfState : MAJOR_HIGHWAYS[i].name = h_out.nearest_highway
        /\ HighwaysOfState = {} =>
             /\ h_out.nearest_highway = NoneName
             /\ h_out.nearest_point = NonePoint

\* a filter that matches no highway of a registry that is not empty
C8_Witness ==
    /\ h_pc = "done"
    /\ StateFilterGiven
    /\ HighwaysOfState = {}
    /\ Len(MAJOR_HIGHWAYS) > 0
    /\ h_out.nearest_highway = NoneName

\* ------------------------------------------------------------------------
\* Properties of _merge_shelters (SpecMerge)
\* ------------------------------------------------------------------------
LiveCategoryOf(s) == IF s.category = NoCategoryKey THEN "General" ELSE s.category

\* the live records of a category, in input order
LiveOf(cat) == SelectSeq(m_live, LAMBDA s : LiveCategoryOf(s) = cat)

AllCategories ==
    Range(SHELTER_CATEGORIES) \cup DOMAIN STATIC_SHELTER_DB \cup { LiveCategoryOf(m_live[i]) : i \in 1..Len(m_live) }

\* the curated table's entries of a category, pinned at the destination
CuratedAtDestination(cat) ==
    IF cat \notin DOMAIN STATIC_SHELTER_DB THEN <<>>
    ELSE [k \in 1..Len(STATIC_SHELTER_DB[cat]) |->
            LET s == STATIC_SHELTER_DB[cat][k] IN
            [name |-> s.name, lat |-> m_dest[1] + s.lat_offset, lon |-> m_dest[2] + s.lon_offset,
             category |-> cat, phone |-> s.phone, ada |-> s.ada, note |-> s.note, source |-> "Curated"]]

MergedList(cat) == IF cat \in DOMAIN m_out THEN m_out[cat] ELSE <<>>

\* C9: a category without live entries holds exactly the curated table's
\* entries of that category, in table order, at destination + offset and
\* tagged Curated.
C9_EmptyCategoryGetsCurated ==
    m_pc = "done" =>
        \A cat \in AllCategories :
            LiveOf(cat) = <<>> => MergedList(cat) = CuratedAtDestination(cat)

\* some category got live entries while a curated category got none
C9_Witness ==
    /\ m_pc = "done"
    /\ m_live # <<>>
    /\ \E cat \in DOMAIN STATIC_SHELTER_DB : LiveOf(cat) = <<>> /\ MergedList(cat) # <<>>

\* C10: a category with at least one live entry holds exactly its live
\* entries in input order, and no curated entry.
C10_LiveCategoryNotSupplemented ==
    m_pc = "done" =>
        \A cat \in AllCategories :
            LiveOf(cat) # <<>> =>
                /\ MergedList(cat) = LiveOf(cat)
                /\ \A i \in 1..Len(MergedList(cat)) : MergedList(cat)[i].source # "Curated"

\* a category of the curated table received two live entries
C10_Witness ==
    /\ m_pc = "done"
    /\ \E cat \in DOMAIN STATIC_SHELTER_DB : Len(LiveOf(cat)) >= 2 /\ Len(MergedList(cat)) >= 2

\* C11: after a merge every category of SHELTER_CATEGORIES is a key of the
\* result and its list holds at least one shelter record, whatever the live
\* list was (the empty list of a failed live query included).
C11_EveryCategoryRepresented ==
    m_pc = "done" =>
        \A cat \in Range(SHELTER_CATEGORIES) :
            cat \in DOMAIN m_out /\ m_out[cat] # <<>>

\* ------------------------------------------------------------------------
\* Properties of the paged fetch (SpecPaged)
\* ------------------------------------------------------------------------
\* rows received by the first n requests, in request order
RowsOfPages(n) ==
    LET F[i \in 0..n] == IF i = 0 THEN <<>> ELSE F[i - 1] \o p_log[i].rows
    IN F[n]

\* the page of request i was answered in full
FullPage(i) == p_log[i].outcome = "ok" /\ Len(p_log[i].rows) = p_page_size /\ p_log[i].rows # <<>>

\* the call has reason to stop after the requests made so far
PagingOver ==
    \/ Len(RowsOfPages(Len(p_log))) >= p_max_rows
    \/ Len(p_log) > 0 /\ ~FullPage(Len(p_log))

CeilDiv(a, b) == IF a <= 0 THEN 0 ELSE (a + b - 1) \div b

\* C12: pages are requested one after another (request i covers offsets
\* (i-1)*page_size .. i*page_size - 1); a request is issued only while every
\* earlier page was full and fewer than max_rows rows are held; once a page
\* is short or empty or max_rows is reached the call returns every row
\* received, in request order; it raises only when a request itself failed;
\* and with page_size >= 1 it issues at most ceil(max_rows / page_size) requests.
C12_PagesUntilShortOrMaxRows ==
    /\ \A i \in 1..Len(p_log) :
         /\ p_log[i].start = (i - 1) * p_page_size
         /\ p_log[i].end = i * p_page_size - 1
         /\ Len(RowsOfPages(i - 1)) < p_max_rows
         /\ \A j \in 1..(i - 1) : FullPage(j)
    /\ p_pc = "request" => ~PagingOver
    /\ p_pc = "returned" => PagingOver /\ p_out = [kind |-> "returned", rows |-> RowsOfPages(Len(p_log))]
    /\ p_pc = "raised" => Len(p_log) > 0 /\ p_log[Len(p_log)].outcome = "error"
    /\ p_page_size >= 1 => Len(p_log) <= CeilDiv(p_max_rows, p_page_size)

\* two full pages, then a short one that ends the call
C12_Witness ==
    /\ p_pc = "returned"
    /\ Len(p_log) = 3
    /\ FullPage(1) /\ FullPage(2)
    /\ p_log[3].rows # <<>> /\ ~FullPage(3)
    /\ Len(p_out.rows) < p_max_rows

\* C13: the call never returns more rows than max_rows (no row at all for
\* a max_rows below 0), whether or not max_rows is a multiple of page_size.
C13_NeverMoreThanMaxRows ==
    p_pc = "returned" => Len(p_out.rows) <= (IF p_max_rows < 0 THEN 0 ELSE p_max_rows)

\* ------------------------------------------------------------------------
\* Properties of the route comparison (SpecRoutes)
\* ------------------------------------------------------------------------
\* |100 * dist - f * s| <= 50: dist (tenths of a mile) is s (hundredths of a
\* mile) times f / 10, rounded to one decimal
IsTimesFactor(dist, s, f) == 100 * dist - f * s <= 50 /\ f * s - 100 * dist <= 50

\* eta (tenths of a minute) is a whole number of minutes, the nearest to
\* dist / mph * 60 with mph = mph2 / 2
IsEtaAtSpeed(eta, dist, mph2) ==
    /\ eta % 10 = 0
    /\ 2 * (mph2 * (eta \div 10) - 12 * dist) <= mph2
    /\ 2 * (12 * dist - mph2 * (eta \div 10)) <= mph2

DriveIsFallback == IsTimesFactor(r_out.drive_dist, r_straight_mi, 13) /\ IsEtaAtSpeed(r_out.drive_eta, r_out.drive_dist, 90)

WalkIsFallback == IsTimesFactor(r_out.walk_dist, r_straight_mi, 12) /\ IsEtaAtSpeed(r_out.walk_eta, r_out.walk_dist, 7)

\* dist and eta are the route's metres and seconds, in miles and minutes to one decimal
IsServiceRoute(dist, eta, resp) ==
    /\ dist * 100000000 - resp.distance * 621371 <= 50000000
    /\ resp.distance * 621371 - dist * 100000000 <= 50000000
    /\ 6 * eta - resp.duration <= 3
    /\ resp.duration - 6 * eta <= 3

\* C14: after a run that called the router, each profile's figures depend
\* on that profile's answer alone: the route's own distance and duration
\* when the call succeeded, the straight-line estimate when it did not.
C14_ProfilesResolvedIndependently ==
    (r_pc = "done" /\ r_calls.made) =>
        /\ IF r_calls.car.kind = "ok"
           THEN IsServiceRoute(r_out.drive_dist, r_out.drive_eta, r_calls.car)
           ELSE DriveIsFallback
        /\ IF r_calls.foot.kind = "ok"
           THEN IsServiceRoute(r_out.walk_dist, r_out.walk_eta, r_calls.foot)
           ELSE WalkIsFallback

\* the car call succeeded and the foot call did not, 57 miles apart
C14_Witness ==
    /\ r_pc = "done"
    /\ r_calls.made
    /\ r_calls.car.kind = "ok"
    /\ r_calls.foot.kind = "notOk"
    /\ r_straight_mi = 5700
    /\ r_out.drive_dist = 10
    /\ r_out.walk_dist = 684

\* C15: a profile without a route gets the estimate s * 1.3 at 45 mph
\* (driving) or s * 1.2 at 3.5 mph (walking), distances to one decimal;
\* 57 miles give 74.1 and 68.4 miles.
C15_FallbackPolicy ==
    r_pc = "done" =>
        LET cached == r_cached_routes[DestKey(r_dest[1], r_dest[2])] IN
        /\ cached.car.none =>
             /\ DriveIsFallback
             /\ r_out.drive_dist >= 0 /\ r_out.drive_eta >= 0
             /\ r_straight_mi = 5700 => r_out.drive_dist = 741
        /\ cached.foot.none =>
             /\ WalkIsFallback
             /\ r_out.walk_dist >= 0 /\ r_out.walk_eta >= 0
             /\ r_straight_mi = 5700 => r_out.walk_dist = 684

\* both profiles unavailable, 57 miles apart
C15_Witness ==
    /\ r_pc = "done"
    /\ r_straight_mi = 5700
    /\ r_out.warning
    /\ r_out.drive_dist = 741 /\ r_out.drive_eta = 990
    /\ r_out.walk_dist = 684 /\ r_out.walk_eta = 11730

\* ------------------------------------------------------------------------
\* Properties of get_evacuation_direction (SpecDirection)
\* ------------------------------------------------------------------------
Sign(x) == IF x > 0 THEN 1 ELSE IF x < 0 THEN -1 ELSE 0

\* the compass octant the person lies in as seen from the fire; the sampled
\* offsets are along the axes or along the diagonals
SubjectOctant ==
    LET north == Sign(d_vulnerable[1] - d_fire[1])
        east == Sign(d_vulnerable[2] - d_fire[2])
    IN CASE north = 1 /\ east = 0 -> "North"
         [] north = 1 /\ east = 1 -> "Northeast"
         [] north = 0 /\ east = 1 -> "East"
         [] north = -1 /\ east = 1 -> "Southeast"
         [] north = -1 /\ east = 0 -> "South"
         [] north = -1 /\ east = -1 -> "Southwest"
         [] north = 0 /\ east = -1 -> "West"
         [] north = 1 /\ east = -1 -> "Northwest"
         [] OTHER -> "None"

\* C20: the label returned points away from the fire: it is the octant the
\* person lies in as seen from the fire (Southwest for the person at
\* 34.00, -118.20 and the fire at 34.20, -118.00).
C20_DirectionPointsAwayFromThreat ==
    (d_pc = "done" /\ d_fire # d_vulnerable) => d_out.direction = SubjectOctant

\* ------------------------------------------------------------------------
\* Properties of calculate_evacuation_plan (SpecPlan)
\* ------------------------------------------------------------------------
\* C16: the urgency is HIGH exactly for a fire nearer than 15 km, MEDIUM
\* exactly from 15 km to below 40 km and LOW exactly from 40 km on.
C16_UrgencyTiers ==
    e_pc = "done" =>
        LET d == e_plan.fire_distance_km IN
        /\ e_plan.urgency \in {"HIGH", "MEDIUM", "LOW"}
        /\ e_plan.urgency = "HIGH" <=> d < 15
        /\ e_plan.urgency = "MEDIUM" <=> (15 <= d /\ d < 40)
        /\ e_plan.urgency = "LOW" <=> d >= 40

\* a fire at 15 km, rated MEDIUM
C16_Witness ==
    /\ e_pc = "done"
    /\ e_plan.fire_distance_km = 15
    /\ e_plan.urgency = "MEDIUM"

PlanZoneDistance(k) == haversine_distance(e_vulnerable[1], e_vulnerable[2], SAFE_ZONES[k].lat, SAFE_ZONES[k].lon)

\* the zones at least 100 km from the person
PlanQualifying == {k \in 1..Len(SAFE_ZONES) : PlanZoneDistance(k) >= 100}

\* position of a qualifying zone by distance, registry order breaking ties
PlanZoneRank(k) ==
    Cardinality({j \in PlanQualifying :
                    \/ PlanZoneDistance(j) < PlanZoneDistance(k)
                    \/ PlanZoneDistance(j) = PlanZoneDistance(k) /\ j < k}) + 1

PlanZoneAt(r) == CHOOSE k \in PlanQualifying : PlanZoneRank(k) = r

\* C17: the primary safe zone is the nearest zone at least 100 km away and
\* the alternatives are the next nearest ones, at most 4, nearest first,
\* none the primary and none nearer than it; there is none when fewer than
\* two zones qualify.
C17_PrimaryAndAlternates ==
    e_pc = "done" =>
        LET alt == e_plan.safe_zone_alternatives
            n == Cardinality(PlanQualifying)
        IN /\ n > 0 =>
                /\ e_plan.safe_zone = SAFE_ZONES[PlanZoneAt(1)].name
                /\ e_plan.safe_zone_distance_km = [none |-> FALSE, value |-> PlanZoneDistance(PlanZoneAt(1))]
           /\ Len(alt) = (IF n < 2 THEN 0 ELSE IF n > 5 THEN 4 ELSE n - 1)
           /\ Len(alt) <= 4
           /\ \A i \in 1..Len(alt) :
                /\ alt[i].name = SAFE_ZONES[PlanZoneAt(i + 1)].name
                /\ alt[i].d = PlanZoneDistance(PlanZoneAt(i + 1))
                /\ alt[i].name # e_plan.safe_zone
                /\ alt[i].d >= e_plan.safe_zone_distance_km.value
                /\ i > 1 => alt[i - 1].d <= alt[i].d

\* more than five zones qualify: four alternatives, two of them equally far
C17_Witness ==
    /\ e_pc = "done"
    /\ Cardinality(PlanQualifying) > 5
    /\ Len(e_plan.safe_zone_alternatives) = 4
    /\ \E i \in 1..3 : e_plan.safe_zone_alternatives[i].d = e_plan.safe_zone_alternatives[i + 1].d

HighwayLegFound == e_legs.highway_point # NonePoint

PrimaryZoneFound == e_legs.safe_zone_coords # NonePoint

\* C18: the total distance is the highway leg plus the distance from the
\* highway point to the primary zone when both exist, the primary zone's
\* direct distance when only the zone exists, and 0 without a primary zone;
\* it is finite and not negative.
C18_TotalDistance ==
    e_pc = "done" =>
        /\ (HighwayLegFound /\ PrimaryZoneFound) =>
              e_plan.total_distance_km =
                  e_plan.highway_distance_km.value
                  + haversine_distance(e_legs.highway_point[1], e_legs.highway_point[2],
                                       e_legs.safe_zone_coords[1], e_legs.safe_zone_coords[2])
        /\ (~HighwayLegFound /\ PrimaryZoneFound) =>
              e_plan.total_distance_km = e_plan.safe_zone_distance_km.value
        /\ ~PrimaryZoneFound => e_plan.total_distance_km = 0
        /\ e_plan.total_distance_km >= 0 /\ e_plan.total_distance_km < Inf
        /\ PrimaryZoneFound <=> PlanQualifying # {}

\* a highway leg that is not on the straight way to the primary zone
C18_Witness ==
    /\ e_pc = "done"
    /\ HighwayLegFound /\ PrimaryZoneFound
    /\ e_plan.highway_distance_km.value > 0
    /\ e_plan.total_distance_km > e_plan.safe_zone_distance_km.value

FiniteNum(x) == x >= 0 /\ x < Inf

FiniteOpt(x) == x.none \/ FiniteNum(x.value)

\* C19: every call returns a complete plan.  Without a highway for the
\* state the label is "No major highway nearby" and both highway distances
\* are None; without a qualifying zone the label is "Consult local
\* authorities", both zone distances are None and there is no alternative;
\* no field holds an infinite number.
C19_NotFoundIsAPlanField ==
    e_pc = "done" =>
        /\ DOMAIN e_plan = {"evacuation_direction", "evacuation_bearing", "fire_name", "fire_distance_km",
                            "fire_distance_mi", "nearest_highway", "highway_distance_km", "highway_distance_mi",
                            "safe_zone", "safe_zone_distance_km", "safe_zone_distance_mi",
                            "safe_zone_alternatives", "total_distance_km", "total_distance_mi", "urgency"}
        /\ (\A i \in 1..Len(MAJOR_HIGHWAYS) :
               e_state.given /\ e_state.code # "" /\ ~InList(e_state.code, MAJOR_HIGHWAYS[i].states)) =>
              /\ e_plan.nearest_highway = "No major highway nearby"
              /\ e_plan.highway_distance_km.none
              /\ e_plan.highway_distance_mi.none
        /\ PlanQualifying = {} =>
              /\ e_plan.safe_zone = "Consult local authorities"
              /\ e_plan.safe_zone_distance_km.none
              /\ e_plan.safe_zone_distance_mi.none
              /\ e_plan.safe_zone_alternatives = <<>>
        /\ FiniteNum(e_plan.fire_distance_km) /\ FiniteNum(e_plan.total_distance_km)
        /\ FiniteNum(e_plan.evacuation_bearing)
        /\ FiniteOpt(e_plan.highway_distance_km) /\ FiniteOpt(e_plan.safe_zone_distance_km)
        /\ e_plan.highway_distance_mi.none \/ e_plan.highway_distance_mi.value = e_plan.highway_distance_km.value * 621371
        /\ e_plan.safe_zone_distance_mi.none \/ e_plan.safe_zone_distance_mi.value = e_plan.safe_zone_distance_km.value * 621371
        /\ \A i \in 1..Len(e_plan.safe_zone_alternatives) : FiniteNum(e_plan.safe_zone_alternatives[i].d)

\* the state matches no highway of the registry and no zone is far enough
C19_Witness ==
    /\ e_pc = "done"
    /\ Len(MAJOR_HIGHWAYS) > 0
    /\ e_state.given /\ e_state.code = "TX"
    /\ Len(SAFE_ZONES) > 0
    /\ PlanQualifying = {}
    /\ e_plan.nearest_highway = "No major highway nearby"
    /\ e_plan.safe_zone = "Consult local authorities"
    /\ e_plan.total_distance_km = 0

\* ------------------------------------------------------------------------
\* Properties of the live shelter query (SpecQuery)
\* ------------------------------------------------------------------------
EndpointFailed(i) == o_log[i].kind \in {"non200", "exception", "unparsable"}

\* C21: the endpoints are asked in list order, the next one only after the
\* one before failed and none after a success; the list returned is built
\* from the first successful answer alone, and is empty when all failed.
C21_FirstSuccessfulEndpointWins ==
    /\ Len(o_log) <= Len(OVERPASS_ENDPOINTS)
    /\ \A i \in 1..Len(o_log) :
         /\ o_log[i].endpoint = OVERPASS_ENDPOINTS[i]
         /\ i < Len(o_log) => EndpointFailed(i)
    /\ o_pc = "request" =>
         /\ Len(o_log) < Len(OVERPASS_ENDPOINTS)
         /\ \A i \in 1..Len(o_log) : EndpointFailed(i)
    /\ o_pc = "returned" =>
         /\ Len(o_log) > 0
         /\ IF EndpointFailed(Len(o_log))
            THEN Len(o_log) = Len(OVERPASS_ENDPOINTS) /\ o_live = <<>>
            ELSE /\ o_log[Len(o_log)].kind = "ok"
                 /\ o_live = ParseElements(o_log[Len(o_log)].elements)

\* the first endpoint failed and the second one delivered two shelters
C21_Witness ==
    /\ o_pc = "returned"
    /\ Len(o_log) = 2
    /\ o_log[1].kind = "exception"
    /\ o_log[2].kind = "ok"
    /\ Len(o_live) = 2

\* C22: every record of the live list and every key of the merged mapping
\* carries a category of SHELTER_CATEGORIES, whatever the tags were.
C22_CategoriesWithinEnumeration ==
    o_pc = "returned" =>
        /\ \A i \in 1..Len(o_live) : o_live[i].category \in Range(SHELTER_CATEGORIES)
        /\ DOMAIN o_merged \subseteq Range(SHELTER_CATEGORIES)

\* ------------------------------------------------------------------------
\* Properties of the direction label (SpecLabel)
\* ------------------------------------------------------------------------
\* the label whose 45-degree sector around k * 45 holds the bearing b, the
\* sector boundaries going to the label of even index
SectorLabel(b) ==
    LET q == b \div 45000
        r == b % 45000
        k == IF r < 22500 THEN q
             ELSE IF r > 22500 THEN q + 1
             ELSE IF q % 2 = 0 THEN q ELSE q + 1
    IN directions[(k % 8) + 1]

\* C23: the label of a bearing b in [0, 360) is element round(b / 45) mod 8
\* of the eight labels, halves rounded to even: from 337.5 on it is North,
\* and on a boundary (22.5, 67.5, ..., 337.5) it is North, East, South or West.
C23_LabelRoundsHalfToEven ==
    l_pc = "done" =>
        /\ l_label = SectorLabel(l_bearing)
        /\ l_bearing >= 337500 => l_label = "North"
        /\ l_bearing % 45000 = 22500 => l_label \in {"North", "East", "South", "West"}

\* the boundary 337.5 wraps to North
C23_Witness ==
    /\ l_pc = "done"
    /\ l_bearing = 337500
    /\ l_label = "North"

\* ------------------------------------------------------------------------
\* C24
\* ------------------------------------------------------------------------
\* the walk to the nearest stop expected for each address tried: the listed
\* figure of its city, no figure when the locality is not listed
ListedWalk ==
    ("Los Angeles, CA" :> 12) @@ ("  raleigh " :> 18) @@ ("Tampa,FL" :> 22)

\* a whole number of minutes nearest to s hundredths of a mile at 30 mph
IsRideMinutes(m, s) == (100 * m - 2 * s <= 50) /\ (2 * s - 100 * m <= 50)

\* C24: the transit total is the walk to the stop (15 minutes when the
\* locality is not listed) plus the ride over the straight-line distance at
\* 30 mph plus 10; the hybrid total is 10 plus the remaining ride plus 5,
\* where the remaining ride covers the distance less 5 miles when the
\* distance exceeds 5 miles and is the plain ride otherwise; the remaining
\* ride never exceeds the plain ride
C24_TransitAndHybridTotals ==
    r_pc = "done" =>
        LET walk == IF r_address \in DOMAIN ListedWalk THEN ListedWalk[r_address] ELSE 15
            ride == r_out.transit_total_min - walk - 10
            rest == r_out.hybrid_total_min - 10 - 5
        IN /\ r_walk_to_stop = walk
           /\ IsRideMinutes(ride, r_straight_mi)
           /\ IF r_straight_mi > 500
                 THEN IsRideMinutes(rest, r_straight_mi - 500)
                 ELSE rest = ride
           /\ rest <= ride

\* a run from an unlisted locality whose ride is shortened by the drive
C24_Witness ==
    /\ r_pc = "done"
    /\ r_address = "CA, Los Angeles"
    /\ r_straight_mi = 5730
    /\ r_out.transit_total_min = 15 + 115 + 10
    /\ r_out.hybrid_total_min = 10 + 105 + 5

\* ------------------------------------------------------------------------
\* C25
\* ------------------------------------------------------------------------
\* the vertices <<highway, position>> of the highways that pass the filter
EligibleVertices ==
    { v \in (1..Len(MAJOR_HIGHWAYS)) \X (1..MaxPath) :
        /\ v[2] <= Len(MAJOR_HIGHWAYS[v[1]].coords)
        /\ StateFilterGiven => v[1] \in HighwaysOfState }

VertexPoint(v) == MAJOR_HIGHWAYS[v[1]].coords[v[2]]

VertexDistance(v) == haversine_distance(h_lat, h_lon, VertexPoint(v)[1], VertexPoint(v)[2])

\* registry order: highway by highway, each highway's path in order
VertexBefore(v, w) == v[1] < w[1] \/ (v[1] = w[1] /\ v[2] < w[2])

\* C25: the returned point is a vertex of the returned highway, the returned
\* distance is the distance from the origin to that vertex, and it is the
\* least distance over all vertices of the highways that pass the state
\* filter; among equally near vertices the first in registry order is returned
C25_NearestVertexFirstOnTies ==
    (h_pc = "done" /\ EligibleVertices # {}) =>
        \E v \in EligibleVertices :
            /\ h_out.nearest_highway = MAJOR_HIGHWAYS[v[1]].name
            /\ h_out.nearest_point = VertexPoint(v)
            /\ h_out.min_distance = VertexDistance(v)
            /\ \A w \in EligibleVertices :
                 /\ VertexDistance(w) >= VertexDistance(v)
                 /\ VertexDistance(w) = VertexDistance(v) => ~VertexBefore(w, v)

\* the nearest vertex lies on two highways that pass the filter, and a
\* farther vertex precedes it on the first of them
C25_Witness ==
    /\ h_pc = "done"
    /\ \E v \in EligibleVertices : \E w \in EligibleVertices : \E u \in EligibleVertices :
         /\ v[1] < w[1]
         /\ VertexDistance(v) = h_out.min_distance
         /\ VertexDistance(w) = h_out.min_distance
         /\ h_out.nearest_highway = MAJOR_HIGHWAYS[v[1]].name
         /\ VertexBefore(u, v)
         /\ VertexDistance(u) > VertexDistance(v)

\* ------------------------------------------------------------------------
\* C26
\* ------------------------------------------------------------------------
EngineOperations ==
    {"find_nearest_safe_zone", "find_nearest_highway", "calculate_evacuation_plan",
     "generate_evacuation_routes_for_alerts", "_merge_shelters"}

\* C26: after any sequence of calls to the five operations the contents of
\* SAFE_ZONES, MAJOR_HIGHWAYS, STATIC_SHELTER_DB, SHELTER_CATEGORIES and
\* _TAG_CATEGORY_MAP are what they were when built, and the objects a call
\* writes to are all local to that call
C26_RegistriesNeverMutated ==
    g_ops # {} =>
        /\ SAFE_ZONES = g_built.SAFE_ZONES
        /\ MAJOR_HIGHWAYS = g_built.MAJOR_HIGHWAYS
        /\ g_STATIC_SHELTER_DB = g_built.STATIC_SHELTER_DB
        /\ g_SHELTER_CATEGORIES = g_built.SHELTER_CATEGORIES
        /\ g_TAG_CATEGORY_MAP = g_built.TAG_CATEGORY_MAP
        /\ g_written \cap RegistryObjects = {}

\* all five operations have run, the last one a merge that filled a mapping
C26_Witness ==
    /\ g_ops = EngineOperations
    /\ g_result.op = "_merge_shelters"
    /\ g_written = {"merged"}
    /\ g_result.value["General"] # <<>>
    /\ Len(SAFE_ZONES) = Len(PlanZones)

\* ------------------------------------------------------------------------
\* C27
\* ------------------------------------------------------------------------
\* C27: whatever first_chunk is, a later attempt of a call uses a smaller
\* chunk size than every earlier attempt, and a call makes at most four attempts
C27_ChunkSizesStrictlyDecrease ==
    /\ \A j \in 1..Len(f_log) : \A k \in 1..Len(f_log) :
         f_log[j].att < f_log[k].att => f_log[k].chunk < f_log[j].chunk
    /\ \A j \in 1..Len(f_log) : f_log[j].att <= 4

\* ------------------------------------------------------------------------
\* C29
\* ------------------------------------------------------------------------
\* the k-th consecutive slice of length c of a list (k = 0, 1, ...)
ConsecutiveSlice(s, k, c) == SubSeq(s, k * c + 1, Min((k + 1) * c, Len(s)))

\* the requests of attempt a of the retrying fetch, in the order issued
AttemptRequests(a) == SelectSeq(f_log, LAMBDA l : l.att = a)

\* the requests, in order, are the first slices of the list at size c
AreConsecutiveSlices(reqs, s, c) ==
    \A k \in 1..Len(reqs) :
        /\ reqs[k].off = (k - 1) * c
        /\ reqs[k].part = ConsecutiveSlice(s, k - 1, c)
        /\ reqs[k].part # <<>>

\* every value of the list is carried by exactly one of the requests
EachValueOnce(reqs, s) ==
    \A i \in 1..Len(s) :
        Cardinality({ k \in 1..Len(reqs) : \E j \in 1..Len(reqs[k].part) : reqs[k].part[j] = s[i] }) = 1

\* the retrying fetch has returned from its attempt a
FetchAttemptCompleted(a) == f_pc = "returned" /\ f_att = a

\* C29: in every attempt at a chunk size c >= 1 over the n values left after
\* dropping nulls and duplicates, the batches are the consecutive slices of
\* length c of the value list, each value is sent in exactly one batch of a
\* completed attempt, and a completed attempt issues ceil(n / c) requests;
\* with no value left the call returns an empty result without any request
C29_BatchesPartitionTheValues ==
    /\ \A a \in 1..4 :
         LET reqs == AttemptRequests(a) IN
         (reqs # <<>> /\ reqs[1].chunk >= 1) =>
            /\ AreConsecutiveSlices(reqs, f_uids, reqs[1].chunk)
            /\ FetchAttemptCompleted(a) =>
                 /\ Len(reqs) = CeilDiv(Len(f_uids), reqs[1].chunk)
                 /\ EachValueOnce(reqs, f_uids)
    /\ (f_pc \in {"returned", "raised"} /\ f_uids = <<>>) =>
         /\ f_log = <<>>
         /\ f_out.kind = "returned"
         /\ f_out.rows = <<>>
    /\ w_chunk >= 1 =>
         /\ AreConsecutiveSlices(w_log, w_vals, w_chunk)
         /\ w_pc = "returned" =>
              /\ Len(w_log) = CeilDiv(Len(w_vals), w_chunk)
              /\ EachValueOnce(w_log, w_vals)
    /\ (w_pc \in {"returned", "raised"} /\ w_vals = <<>>) =>
         /\ w_log = <<>>
         /\ w_out.kind = "returned"
         /\ w_out.rows = <<>>

\* three values fetched two at a time by both functions: a first attempt and
\* a plain chunked fetch that each completed in two batches, the last one short
C29_Witness ==
    /\ f_pc = "returned"
    /\ f_att = 1
    /\ Len(f_uids) = 3
    /\ Len(f_log) = 2
    /\ Len(f_log[2].part) = 1
    /\ w_pc = "returned"
    /\ Len(w_vals) = 3
    /\ Len(w_log) = 2
    /\ Len(w_log[2].part) = 1

\* ------------------------------------------------------------------------
\* C28
\* ------------------------------------------------------------------------
\* C28: across reruns and searches every entry of cached_routes was asked
\* for from the origin that is locked now; whenever no origin is locked the
\* safe-zone list and cached_routes are cleared with it; and the routes a
\* run displays were asked for from the origin of that run
C28_CachedRoutesBelongToLockedOrigin ==
    /\ \A k \in DOMAIN session_state.cached_routes :
         /\ session_state.search_coords # NonePoint
         /\ s_route_origins[k] = session_state.search_coords
    /\ session_state.search_coords = NonePoint =>
         /\ session_state.dynamic_safe_zones.none
         /\ session_state.cached_routes = <<>>
    /\ s_shown.displayed => s_shown.asked_from = s_shown.origin

\* after a search from another origin, a run displays routes from the cache
\* while a second destination is cached as well
C28_Witness ==
    /\ s_shown.displayed
    /\ s_shown.from_cache
    /\ \E o \in s_earlier_origins : o # session_state.search_coords
    /\ Cardinality(DOMAIN session_state.cached_routes) >= 2

\* ------------------------------------------------------------------------
\* C30
\* ------------------------------------------------------------------------
\* C30: for the same subject location and the same fire, the badge of the
\* page's fire-threat list is the tier that calculate_evacuation_plan reports
\* as urgency
C30_BadgeIsPlanUrgency ==
    (t_page = "done" /\ t_engine = "done") =>
        \A k \in 1..Len(t_badges) : t_badges[k].badge = t_urgency[t_badges[k].row]

====
